---- MODULE Spec2Model ----
(***************************************************************************)
(* clipmotion: the installer (src/cli/commands/add.ts, lines 1-769) as a   *)
(* state machine, and its utils merger as operators over file contents.    *)
(*                                                                         *)
(* A file content is a sequence of lexemes <<kind, arg>>.  The lexemes are *)
(* the pieces of text the regular expressions of add.ts tell apart:        *)
(*   <<"function", n>>  the text  export function n                        *)
(*   <<"const", n>>     the text  export const n = (                       *)
(*   <<"{", "">> <<"}", "">> <<";", "">> <<"\n", "">>   that character     *)
(*   <<"text", v>>      any other text: no brace, semicolon, line break or *)
(*                      declaration keyword; v tells two texts apart       *)
(* An identifier n is the sequence of its characters, because the pattern  *)
(* of extractFunctionCode matches a name by its leading characters.        *)
(***************************************************************************)
EXTENDS Integers, Sequences, FiniteSets, TLC

(***************************************************************************)
(* Bounds of the model.                                                    *)
(***************************************************************************)
\* declarations in one utils content of the merge specification
MaxDecls == 2
\* deepest brace nesting inside a generated function body
MaxDepth == 2
\* merges applied in a row to one utils file
MaxMerges == 2
\* role folders (ui, lib, hooks) in one registry source tree
MaxFolders == 3
\* import statements in one source text
MaxImports == 2

Absent == <<<<"absent", "">>>>

LB == <<"{", "">>
RB == <<"}", "">>
SEMI == <<";", "">>
NL == <<"\n", "">>

Text(v) == <<"text", v>>

IsPrefix(p, s) == Len(p) <= Len(s) /\ SubSeq(s, 1, Len(p)) = p

Range(s) == {s[i] : i \in 1..Len(s)}

\* Set insertion order of new Set<string>(): first occurrences, in order
RECURSIVE Dedup(_)
Dedup(s) ==
  IF s = <<>> THEN <<>>
  ELSE LET front == Dedup(SubSeq(s, 1, Len(s) - 1))
           last == s[Len(s)]
       IN IF last \in Range(front) THEN front ELSE Append(front, last)

RECURSIVE TokensOfKind(_, _)
TokensOfKind(content, kind) ==
  IF content = <<>> THEN <<>>
  ELSE LET rest == TokensOfKind(Tail(content), kind)
       IN IF Head(content)[1] = kind THEN <<Head(content)[2]>> \o rest ELSE rest

\* add.ts 215-234: all function declarations first, then all const bindings
extractFunctionNames(content) ==
  Dedup(TokensOfKind(content, "function") \o TokensOfKind(content, "const"))

\* index of the first lexeme at or after k whose kind is in kinds, 0 if none
RECURSIVE FirstOf(_, _, _)
FirstOf(content, k, kinds) ==
  IF k > Len(content) THEN 0
  ELSE IF content[k][1] \in kinds THEN k
  ELSE FirstOf(content, k + 1, kinds)

\* index of the last lexeme after i whose kind is kind, 0 if none
RECURSIVE LastOf(_, _, _)
LastOf(content, i, kind) ==
  IF Len(content) <= i THEN 0
  ELSE IF content[Len(content)][1] = kind THEN Len(content)
  ELSE LastOf(SubSeq(content, 1, Len(content) - 1), i, kind)

\* (?:[^{}]|\{[^{}]*\})*\}  from position k: index of the closing brace, 0 if
\* the pattern fails (a brace nested two deep, or no closing brace)
RECURSIVE BodyEnd(_, _)
BodyEnd(content, k) ==
  IF k > Len(content) THEN 0
  ELSE IF content[k] = RB THEN k
  ELSE IF content[k] = LB
    THEN LET b == FirstOf(content, k + 1, {"{", "}"})
         IN IF b # 0 /\ content[b] = RB THEN BodyEnd(content, b + 1) ELSE 0
  ELSE BodyEnd(content, k + 1)

\* function\s+NAME\s*[^{]*\{ ... \}  tried at position i: end index or 0
FunctionMatchEnd(content, i, functionName) ==
  IF content[i][1] = "function" /\ IsPrefix(functionName, content[i][2])
  THEN LET open == FirstOf(content, i + 1, {"{"})
       IN IF open = 0 THEN 0 ELSE BodyEnd(content, open + 1)
  ELSE 0

\* (const|let|var)\s+NAME\s*[:=][^;]*(;|\n)  tried at position i: end index or 0
ArrowMatchEnd(content, i, functionName) ==
  IF content[i] = <<"const", functionName>>
  THEN LET semi == FirstOf(content, i + 1, {";"})
       IN IF semi # 0 THEN semi ELSE LastOf(content, i, "\n")
  ELSE 0

NoCode == <<<<"null", "">>>>

\* add.ts 236-259: the leftmost match of the function pattern, else of the
\* arrow pattern, else null
extractFunctionCode(content, functionName) ==
  LET fnAt == {i \in 1..Len(content) : FunctionMatchEnd(content, i, functionName) # 0}
      arrowAt == {i \in 1..Len(content) : ArrowMatchEnd(content, i, functionName) # 0}
      Min(S) == CHOOSE x \in S : \A y \in S : x <= y
  IN IF fnAt # {}
     THEN SubSeq(content, Min(fnAt), FunctionMatchEnd(content, Min(fnAt), functionName))
     ELSE IF arrowAt # {}
     THEN SubSeq(content, Min(arrowAt), ArrowMatchEnd(content, Min(arrowAt), functionName))
     ELSE NoCode

RECURSIVE trimEnd(_)
trimEnd(s) ==
  IF s # <<>> /\ s[Len(s)] = NL THEN trimEnd(SubSeq(s, 1, Len(s) - 1)) ELSE s

RECURSIVE trimStart(_)
trimStart(s) == IF s # <<>> /\ Head(s) = NL THEN trimStart(Tail(s)) ELSE s

trim(s) == trimEnd(trimStart(s))

RECURSIVE join(_, _)
join(parts, separator) ==
  IF parts = <<>> THEN <<>>
  ELSE IF Len(parts) = 1 THEN parts[1]
  ELSE parts[1] \o separator \o join(Tail(parts), separator)

RECURSIVE SeqFilter(_, _)
SeqFilter(s, excluded) ==
  IF s = <<>> THEN <<>>
  ELSE IF Head(s) \in excluded THEN SeqFilter(Tail(s), excluded)
  ELSE <<Head(s)>> \o SeqFilter(Tail(s), excluded)

\* add.ts 292-294
missingFunctions(existingContent, newContent) ==
  SeqFilter(extractFunctionNames(newContent),
            Range(extractFunctionNames(existingContent)))

\* add.ts 304-310: the trimmed snippets of the missing names that have one
RECURSIVE functionsToAdd(_, _)
functionsToAdd(newContent, missing) ==
  IF missing = <<>> THEN <<>>
  ELSE LET fnCode == extractFunctionCode(newContent, Head(missing))
           rest == functionsToAdd(newContent, Tail(missing))
       IN IF fnCode # NoCode THEN <<trim(fnCode)>> \o rest ELSE rest

\* add.ts 261-328: the result and the content of the target file afterwards
mergeUtilsFile(existing, newContent, overwrite) ==
  IF existing = Absent THEN [result |-> "created", content |-> newContent]
  ELSE IF overwrite THEN [result |-> "created", content |-> newContent]
  ELSE LET missing == missingFunctions(existing, newContent)
           toAdd == functionsToAdd(newContent, missing)
           separator == <<NL, NL>>
       IN IF missing = <<>> THEN [result |-> "skipped", content |-> existing]
          ELSE IF toAdd = <<>> THEN [result |-> "skipped", content |-> existing]
          ELSE [result |-> "merged",
                content |-> trimEnd(existing) \o separator
                            \o join(toAdd, separator) \o <<NL>>]

(***************************************************************************)
(* Utils contents the merge specification draws from.  A content is a list *)
(* of declarations, one per line.                                          *)
(***************************************************************************)
cn == <<"c", "n">>
cnMerge == <<"c", "n", "M">>
BindingNames == {cn, cnMerge}

RECURSIVE Body(_, _)
Body(depth, v) ==
  IF depth = 0 THEN <<LB, Text(v), SEMI, RB>>
  ELSE <<LB, Text("if")>> \o Body(depth - 1, v) \o <<RB>>

\* export function n() { ... v; ... }   with `depth` nested blocks
FunctionDecl(n, depth, v) == <<<<"function", n>>>> \o Body(depth, v)
\* export const n = () => v;      and the same without the semicolon
ArrowDecl(n, v) == <<<<"const", n>>, Text(v), SEMI>>
ArrowDeclNoSemi(n, v) == <<<<"const", n>>, Text(v)>>

IncomingDecls(n) ==
  {FunctionDecl(n, d, "new") : d \in 0..MaxDepth}
    \cup {ArrowDecl(n, "new"), ArrowDeclNoSemi(n, "new")}
ExistingDecls(n) == {FunctionDecl(n, 0, "old"), ArrowDecl(n, "old")}

\* the contents of 1..MaxDecls declarations, each of another name
RECURSIVE Contents(_, _, _)
Contents(decls, names, k) ==
  IF k = 0 THEN {<<>>}
  ELSE {<<>>} \cup
       UNION {UNION {{d \o (IF rest = <<>> THEN <<>> ELSE <<NL>> \o rest) :
                        rest \in Contents(decls, names \ {n}, k - 1)} :
                     d \in decls[n]} : n \in names}

IncomingContents ==
  Contents([n \in BindingNames |-> IncomingDecls(n)], BindingNames, MaxDecls) \ {<<>>}
ExistingFiles ==
  LET cs == Contents([n \in BindingNames |-> ExistingDecls(n)], BindingNames, MaxDecls) \ {<<>>}
  IN cs \cup {c \o <<NL>> : c \in cs} \cup {Absent}

(***************************************************************************)
(* The installer.  Paths are sequences of segments; an absolute path       *)
(* starts with the empty segment, as "/proj/x" split at "/" does.          *)
(***************************************************************************)
\* registryDependencies edges in the whole registry
MaxEdges == 2
\* names given on the command line
MaxRequested == 2
\* nested calls of installSingleComponent the model follows
MaxStack == 5

Names == {"card", "cn", "utils"}
NameOrder == <<"card", "cn", "utils">>

cwd == <<"", "proj">>

\* String.prototype.toLowerCase on the segments the model uses
toLowerCase(segment) ==
  CASE segment = "Card.tsx" -> "card.tsx"
    [] segment = "CardItem.tsx" -> "carditem.tsx"
    [] OTHER -> segment

basename(path) == <<path[Len(path)]>>

\* add.ts 201-213; the five patterns, in the order of utilsPatterns
isUtilsFile(filename) ==
  LET normalizedPath == [i \in 1..Len(filename) |-> toLowerCase(filename[i])]
      n == Len(normalizedPath)
      utilsDot == {"utils.ts", "utils.js", "utils.tsx", "utils.jsx"}
      indexDot == {"index.ts", "index.js", "index.tsx", "index.jsx"}
  IN \/ n = 1 /\ normalizedPath[1] \in utilsDot
     \/ n = 2 /\ normalizedPath[1] = "utils" /\ normalizedPath[2] \in indexDot
     \/ n >= 3 /\ normalizedPath[n - 1] = "utils" /\ normalizedPath[n] \in indexDot
     \/ n = 1 /\ normalizedPath[1] \in {"cn.ts", "cn.js"}
     \/ n = 2 /\ normalizedPath[1] = "cn" /\ normalizedPath[2] \in {"index.ts", "index.js"}

\* init.ts 99-126: the default aliases of react/nextjs and of vue
Configs ==
  { [framework |-> "react",
     aliases |-> [components |-> <<"components">>, utils |-> <<"components", "utils">>]],
    [framework |-> "vue",
     aliases |-> [components |-> <<"components">>, utils |-> <<"utils">>]] }

\* the configurations of the projects the model installs into
ProjectConfigs == {c \in Configs : c.framework = "react"}

\* what the registry serves for each name, its registryDependencies apart
Catalog ==
  [n \in Names |->
    CASE n = "card" ->
           [type |-> "registry:component",
            files |-> << [name |-> <<"Card.tsx">>, content |-> <<Text("Card")>>],
                         [name |-> <<"CardItem.tsx">>, content |-> <<Text("CardItem")>>] >>,
            dependencies |-> <<"react">>, devDependencies |-> <<>>]
      [] n = "cn" ->
           [type |-> "registry:lib",
            files |-> << [name |-> <<"cn", "index.ts">>,
                          content |-> FunctionDecl(cnMerge, 0, "cn") \o <<NL>>
                                      \o FunctionDecl(cn, 0, "cn")] >>,
            dependencies |-> <<"clsx">>, devDependencies |-> <<"@types/node">>]
      [] n = "utils" ->
           [type |-> "registry:lib",
            files |-> << [name |-> <<"utils", "index.ts">>,
                          content |-> FunctionDecl(cnMerge, 0, "utils")] >>,
            dependencies |-> <<>>, devDependencies |-> <<>>] ]

\* a registry whose utils item names its file utils.ts
FlatCatalog ==
  [Catalog EXCEPT !["utils"].files =
     << [name |-> <<"utils.ts">>, content |-> FunctionDecl(cnMerge, 0, "utils")] >>]

\* the registryDependencies lists of a set of edges, in the order of NameOrder
RECURSIVE DepsIn(_, _, _)
DepsIn(edges, n, k) ==
  IF k > Len(NameOrder) THEN <<>>
  ELSE (IF <<n, NameOrder[k]>> \in edges THEN <<NameOrder[k]>> ELSE <<>>)
       \o DepsIn(edges, n, k + 1)

DependencyGraphs ==
  {[n \in Names |-> DepsIn(edges, n, 1)] :
     edges \in {e \in SUBSET (Names \X Names) : Cardinality(e) <= MaxEdges}}

\* what goes wrong in a run: nothing, or for one name the fetch answers 404,
\* the fetch fails otherwise, or the package manager exits non-zero
NoFault == <<"none", "none">>
Faults == {NoFault} \cup (Names \X {"404", "500", "npm"})

RequestLists == UNION {[1..k -> Names] : k \in 1..MaxRequested}

\* an option that was not given
NoPath == <<>>
NoFramework == "undefined"

\* add.ts 164-167
validateFramework(fw) == fw \in {"nextjs", "react", "vue", "angular"}

\* the options of a plain run: --overwrite or not, nothing else
PlainOptions ==
  {[overwrite |-> b, path |-> NoPath, framework |-> NoFramework] : b \in BOOLEAN}

\* runs with --path, with --framework (a framework or not), or both
CustomOptions ==
  {[overwrite |-> FALSE, path |-> p, framework |-> fw] :
     p \in {NoPath, <<"src", "components">>}, fw \in {NoFramework, "vue", "svelte"}}
    \ PlainOptions

\* add.ts 475
componentBasePath(cfg, opts) ==
  IF opts.path # NoPath THEN opts.path ELSE cfg.aliases.components

\* add.ts 482-498
targetPath(cfg, opts, component, file) ==
  IF component.type = "registry:lib"
  THEN cwd \o cfg.aliases.utils \o basename(file.name)
  ELSE cwd \o componentBasePath(cfg, opts) \o file.name

\* the project before the first run: empty, or every target already there
\* with content of the user's
UserContent(path) ==
  IF isUtilsFile(path) THEN FunctionDecl(cn, 0, "user") ELSE <<Text("user")>>

AllTargets(cfg) ==
  {targetPath(cfg, [path |-> NoPath], Catalog[n], Catalog[n].files[i]) :
     <<n, i>> \in {<<m, j>> \in Names \X (1..2) : j <= Len(Catalog[m].files)}}

Projects(cfg) ==
  { <<>>, [p \in AllTargets(cfg) |-> UserContent(p)] }

VARIABLES utilsFile, mergeLog

VARIABLES
  registry,     \* name -> the item the registry serves (constant in a behaviour)
  fault,        \* the failure the environment holds in store
  config,       \* clipmotion-components.json
  options,      \* AddOptions
  components,   \* the requested names
  framework,    \* context.framework, "unset" before the context is made
  files,        \* the project's files: target path -> content
  installed,    \* context.installed
  stack,        \* the calls of installSingleComponent in progress, innermost last
  returned,     \* what the call that just returned gave back, "none" otherwise
  nextIndex,    \* position of the for loop of addComponent in components
  results,      \* success / failed / notFound of addComponent
  pc,           \* where addComponent is: "start", "loop", "summary", "done", "rejected"
  exitCode,     \* the code given to process.exit, 0 when the run returns
  events,       \* what this run has done so far, in order
  steps,        \* how many steps this run has taken
  run,          \* 1 for the first invocation, 2 for the repeated one
  filesAtStart  \* the files as they were when this run began

VARIABLES
  tree,         \* the directory <cwd>/registry, constant in a behaviour
  buildFault,   \* the file operation that throws in this build, if any
  bpc,          \* where buildRegistry is
  frameworks,   \* the framework directories buildRegistry found
  stats,        \* BuildStats of buildRegistry
  fwIndex,      \* position of the loop over frameworks
  roleIndex,    \* position of processFramework in ui, lib, hooks
  fileIndex,    \* position of processDirectory in the files of the folder
  processed,    \* the counter of processDirectory
  fwStats,      \* the stats of processFramework
  artifacts,    \* the files under <cwd>/public/r: path -> registry item
  index,        \* what was written to public/r/index.json, if anything
  buildExit,    \* the code given to process.exit, 0 when buildRegistry returns
  buildLog      \* what the build reported and wrote, in order

VARIABLES
  source,           \* the source text given to extractDependencies
  sourceFramework,  \* the framework given to it
  extracted         \* the list it returned

VARIABLES
  project,             \* what detectFramework finds in the project directory
  configFile,          \* clipmotion-components.json of that directory
  directories,         \* the directories under it
  initOptions,         \* the options init is called with
  initFault,           \* what fails in this project: nothing, the write, the install
  ipc,                 \* where init is
  initFramework,       \* the framework init has settled on
  initOutcome,         \* how init ended
  initRun,             \* 1 for the first init in the directory, 2 for the second
  configAtStart,       \* configFile when the current init started
  directoriesAtStart   \* directories when the current init started

VARIABLES
  findInput,    \* the url, the project, the registry index and --install of a find
  animation,    \* the entry findAnimationByUrl returns, NoAnimation for null
  findAction,   \* what promptUserAction returned
  findLog,      \* what find printed
  addCalls,     \* the calls of addComponent find made
  fpc           \* where findComponent is

VARIABLES
  createInput,        \* the name, the --framework option and the fault of a create
  createFiles,        \* the files under registry/, each a path and a content
  createFilesAtStart, \* createFiles when the command started
  registryDir,        \* whether registry/ exists
  asked,              \* whether the overwrite was asked for
  overwriteAnswer,    \* the answer to it
  details,            \* the framework promptForDetails returned
  createExit,         \* the status of process.exit, -1 before it
  cpc                 \* where createComponent is

mergeVars == <<utilsFile, mergeLog>>
createVars == <<createInput, createFiles, createFilesAtStart, registryDir, asked,
                overwriteAnswer, details, createExit, cpc>>
findVars == <<findInput, animation, findAction, findLog, addCalls, fpc>>
depVars == <<source, sourceFramework, extracted>>
initVars == <<project, configFile, directories, initOptions, initFault, ipc, initFramework,
              initOutcome, initRun, configAtStart, directoriesAtStart>>
otherVars == <<depVars, initVars, findVars, createVars>>
buildInputVars == <<tree, buildFault>>
buildVars == <<buildInputVars, bpc, frameworks, stats, fwIndex, roleIndex, fileIndex, processed,
               fwStats, artifacts, index, buildExit, buildLog>>
inputVars == <<registry, fault, config, options, components>>
contextVars == <<framework>>
runVars == <<installed, stack, returned, nextIndex, results, pc, exitCode, events, steps>>
installVars == <<inputVars, contextVars, runVars, files, run, filesAtStart>>
vars == <<mergeVars, installVars, buildVars, otherVars>>

NoResults == [success |-> 0, failed |-> 0, notFound |-> <<>>]

\* the registries over a catalog, one for each dependency graph
Registries(catalog) ==
  {[n \in Names |-> catalog[n] @@ [registryDependencies |-> g[n]]] : g \in DependencyGraphs}

\* add.ts 619-628
targetFramework ==
  IF options.framework # NoFramework THEN options.framework ELSE config.framework

\* addComponent is entered (add.ts 584-616): plain runs with every fault
\* and project, and faultless runs into an empty project with the other
\* options or the other registry
InitInstall ==
  /\ config \in ProjectConfigs
  /\ components \in RequestLists
  /\ \/ /\ registry \in Registries(Catalog)
        /\ fault \in Faults
        /\ options \in PlainOptions
        /\ files \in Projects(config)
     \/ /\ registry \in Registries(Catalog)
        /\ fault = NoFault
        /\ options \in CustomOptions
        /\ files = <<>>
     \/ /\ registry \in Registries(FlatCatalog)
        /\ fault = NoFault
        /\ options \in PlainOptions \cup CustomOptions
        /\ files = <<>>
  /\ framework = "unset"
  /\ installed = {}
  /\ stack = <<>>
  /\ returned = "none"
  /\ nextIndex = 1
  /\ results = NoResults
  /\ pc = "start"
  /\ exitCode = -1
  /\ events = <<>>
  /\ steps = 0
  /\ run = 1
  /\ filesAtStart = files

(***************************************************************************)
(* installSingleComponent (add.ts 422-578), one frame of `stack` per call. *)
(***************************************************************************)
NewFrame(componentName) ==
  [name |-> componentName, pc |-> "enter", dep |-> 1, file |-> 1,
   filesWritten |-> 0, filesSkipped |-> 0, filesMerged |-> 0]

Top == stack[Len(stack)]
Callers == SubSeq(stack, 1, Len(stack) - 1)
component == registry[Top.name]

\* depth 1 is a call made by addComponent itself
Event(op, componentName, path) ==
  [op |-> op, name |-> componentName, path |-> path, depth |-> Len(stack)]

SetTop(frame) == stack' = Append(Callers, frame)

\* return from the innermost call
Return(value) ==
  /\ stack' = Callers
  /\ returned' = value

\* add.ts 562-577: every throw inside the try ends the call with false
Catch(reason) ==
  /\ Return("false")
  /\ events' = Append(events, Event(reason, Top.name, <<>>))

Running == stack # <<>> /\ pc = "loop"

\* a call for an installed name that goes on to fetch it again
SkipInstalledFetchesAgain ==
  /\ Running /\ Top.pc = "enter"
  /\ Top.name \in installed
  /\ SetTop([Top EXCEPT !.pc = "fetch"])
  /\ steps' = steps + 1
  /\ UNCHANGED <<mergeVars, buildVars, otherVars, inputVars, contextVars, installed, returned, nextIndex, results, pc, exitCode,
                 events, files, run, filesAtStart>>

\* add.ts 428-432
SkipInstalled ==
  /\ Running /\ Top.pc = "enter"
  /\ Top.name \in installed
  /\ Return("true")
  /\ events' = Append(events, Event("already-installed", Top.name, <<>>))
  /\ steps' = steps + 1
  /\ UNCHANGED <<mergeVars, buildVars, otherVars, inputVars, contextVars, installed, nextIndex, results, pc, exitCode, files, run,
                 filesAtStart>>

\* the call goes on to the fetch without adding the name to the installed set
MarkInstalledWithoutAdd ==
  /\ Running /\ Top.pc = "enter"
  /\ Top.name \notin installed
  /\ SetTop([Top EXCEPT !.pc = "fetch"])
  /\ steps' = steps + 1
  /\ UNCHANGED <<mergeVars, buildVars, otherVars, inputVars, contextVars, installed, returned, nextIndex, results, pc, exitCode,
                 events, files, run, filesAtStart>>

\* add.ts 434-436
MarkInstalled ==
  /\ Running /\ Top.pc = "enter"
  /\ Top.name \notin installed
  /\ installed' = installed \cup {Top.name}
  /\ SetTop([Top EXCEPT !.pc = "fetch"])
  /\ steps' = steps + 1
  /\ UNCHANGED <<mergeVars, buildVars, otherVars, inputVars, contextVars, returned, nextIndex, results, pc, exitCode, events, files,
                 run, filesAtStart>>

\* add.ts 334-416: the outcome of fetching a name
fetchComponent(componentName) ==
  IF fault = <<componentName, "404">> THEN "not found"
  ELSE IF fault = <<componentName, "500">> THEN "http error"
  ELSE "ok"

\* add.ts 439-445, the fetch resolves
FetchOk ==
  /\ Running /\ Top.pc = "fetch"
  /\ fetchComponent(Top.name) = "ok"
  /\ SetTop([Top EXCEPT !.pc = "deps"])
  /\ events' = Append(events, Event("fetch", Top.name, <<framework>>))
  /\ steps' = steps + 1
  /\ UNCHANGED <<mergeVars, buildVars, otherVars, inputVars, contextVars, installed, returned, nextIndex, results, pc, exitCode, files,
                 run, filesAtStart>>

\* add.ts 439-445 and 562-577, the fetch rejects
FetchFails ==
  /\ Running /\ Top.pc = "fetch"
  /\ fetchComponent(Top.name) # "ok"
  /\ stack' = Callers
  /\ returned' = "false"
  /\ events' = events \o <<Event("fetch", Top.name, <<framework>>),
                           Event(fetchComponent(Top.name), Top.name, <<>>)>>
  /\ steps' = steps + 1
  /\ UNCHANGED <<mergeVars, buildVars, otherVars, inputVars, contextVars, installed, nextIndex, results, pc, exitCode, files, run,
                 filesAtStart>>

\* the fetches of all remaining registry dependencies are started together
\* with the call for the next one
CallDependencyFetchesAll ==
  /\ Running /\ Top.pc = "deps"
  /\ Top.dep <= Len(component.registryDependencies)
  /\ Len(stack) < MaxStack
  /\ stack' = Append(Append(Callers, [Top EXCEPT !.pc = "awaitDep"]),
                     NewFrame(component.registryDependencies[Top.dep]))
  /\ events' = events \o
       [k \in 1..(Len(component.registryDependencies) - Top.dep) |->
          [op |-> "fetch", name |-> component.registryDependencies[Top.dep + k],
           path |-> <<framework>>, depth |-> Len(stack) + 1]]
  /\ steps' = steps + 1
  /\ UNCHANGED <<mergeVars, buildVars, otherVars, inputVars, contextVars, installed, returned, nextIndex, results, pc, exitCode,
                 files, run, filesAtStart>>

\* add.ts 452-453: the recursive call for the next registry dependency
CallDependency ==
  /\ Running /\ Top.pc = "deps"
  /\ Top.dep <= Len(component.registryDependencies)
  /\ Len(stack) < MaxStack
  /\ stack' = Append(Append(Callers, [Top EXCEPT !.pc = "awaitDep"]),
                     NewFrame(component.registryDependencies[Top.dep]))
  /\ steps' = steps + 1
  /\ UNCHANGED <<mergeVars, buildVars, otherVars, inputVars, contextVars, installed, returned, nextIndex, results, pc, exitCode, events,
                 files, run, filesAtStart>>

\* add.ts 453-457, success is true
DependencyInstalled ==
  /\ Running /\ Top.pc = "awaitDep"
  /\ returned = "true"
  /\ SetTop([Top EXCEPT !.pc = "deps", !.dep = @ + 1])
  /\ returned' = "none"
  /\ steps' = steps + 1
  /\ UNCHANGED <<mergeVars, buildVars, otherVars, inputVars, contextVars, installed, nextIndex, results, pc, exitCode, events, files,
                 run, filesAtStart>>

\* the failure of a dependency is ignored and the next one is installed
DependencyFailedGoesOn ==
  /\ Running /\ Top.pc = "awaitDep"
  /\ returned = "false"
  /\ SetTop([Top EXCEPT !.pc = "deps", !.dep = @ + 1])
  /\ returned' = "none"
  /\ events' = events
  /\ steps' = steps + 1
  /\ UNCHANGED <<mergeVars, buildVars, otherVars, inputVars, contextVars, installed, nextIndex, results, pc, exitCode, files, run,
                 filesAtStart>>

\* add.ts 454-456 and 562-577, success is false
DependencyFailed ==
  /\ Running /\ Top.pc = "awaitDep"
  /\ returned = "false"
  /\ Catch("dependency failed")
  /\ steps' = steps + 1
  /\ UNCHANGED <<mergeVars, buildVars, otherVars, inputVars, contextVars, installed, nextIndex, results, pc, exitCode, files, run,
                 filesAtStart>>

\* add.ts 52-82: whether the package manager is run at all
RunsPackageManager(c) == c.dependencies # <<>> \/ c.devDependencies # <<>>

installDependencies(componentName) ==
  IF fault = <<componentName, "npm">> THEN "failed" ELSE "ok"

PackageEvents(c, componentName) ==
  (IF c.dependencies # <<>> THEN <<Event("npm", componentName, c.dependencies)>> ELSE <<>>)
  \o (IF c.devDependencies # <<>>
      THEN <<Event("npm-dev", componentName, c.devDependencies)>> ELSE <<>>)

\* add.ts 462-472, after the loop over the registry dependencies
PackagesInstalled ==
  /\ Running /\ Top.pc = "deps"
  /\ Top.dep > Len(component.registryDependencies)
  /\ ~RunsPackageManager(component) \/ installDependencies(Top.name) = "ok"
  /\ SetTop([Top EXCEPT !.pc = "files"])
  /\ events' = events \o PackageEvents(component, Top.name)
  /\ steps' = steps + 1
  /\ UNCHANGED <<mergeVars, buildVars, otherVars, inputVars, contextVars, installed, returned, nextIndex, results, pc, exitCode, files,
                 run, filesAtStart>>

\* the failure of the package manager is reported and the files are
\* written all the same
PackagesFailedWritesFiles ==
  /\ Running /\ Top.pc = "deps"
  /\ Top.dep > Len(component.registryDependencies)
  /\ RunsPackageManager(component) /\ installDependencies(Top.name) = "failed"
  /\ SetTop([Top EXCEPT !.pc = "files"])
  /\ returned' = returned
  /\ events' = Append(events, Event("npm failed", Top.name, <<>>))
  /\ steps' = steps + 1
  /\ UNCHANGED <<mergeVars, buildVars, otherVars, inputVars, contextVars, installed, nextIndex, results, pc, exitCode, files, run,
                 filesAtStart>>

\* add.ts 462-472 and 75-81, 562-577: the package manager fails
PackagesFailed ==
  /\ Running /\ Top.pc = "deps"
  /\ Top.dep > Len(component.registryDependencies)
  /\ RunsPackageManager(component) /\ installDependencies(Top.name) = "failed"
  /\ Catch("npm failed")
  /\ steps' = steps + 1
  /\ UNCHANGED <<mergeVars, buildVars, otherVars, inputVars, contextVars, installed, nextIndex, results, pc, exitCode, files, run,
                 filesAtStart>>

existsSync(path) == path \in DOMAIN files
readFileSync(path) == IF existsSync(path) THEN files[path] ELSE Absent
WrittenFiles(path, content) == (path :> content) @@ files

AtFile == Running /\ Top.pc = "files" /\ Top.file <= Len(component.files)
file == component.files[Top.file]
target == targetPath(config, options, component, file)

\* add.ts 500-524: a utils file goes through mergeUtilsFile
MergeUtils ==
  /\ AtFile
  /\ isUtilsFile(target)
  /\ LET r == mergeUtilsFile(readFileSync(target), file.content, options.overwrite)
     IN /\ files' = WrittenFiles(target, r.content)
        /\ SetTop([Top EXCEPT !.file = @ + 1,
                              !.filesMerged = IF r.result = "merged" THEN @ + 1 ELSE @,
                              !.filesSkipped = IF r.result = "skipped" THEN @ + 1 ELSE @,
                              !.filesWritten = IF r.result = "created" THEN @ + 1 ELSE @])
        /\ events' = Append(events, Event("utils " \o r.result, Top.name, target))
  /\ steps' = steps + 1
  /\ UNCHANGED <<mergeVars, buildVars, otherVars, inputVars, contextVars, installed, returned, nextIndex, results, pc, exitCode, run,
                 filesAtStart>>

\* the file found in place is reported as skipped and written all the same
SkipExistingWrites ==
  /\ AtFile
  /\ ~isUtilsFile(target)
  /\ existsSync(target) /\ ~options.overwrite
  /\ files' = WrittenFiles(target, file.content)
  /\ SetTop([Top EXCEPT !.file = @ + 1, !.filesSkipped = @ + 1])
  /\ events' = Append(events, Event("skipped", Top.name, target))
  /\ steps' = steps + 1
  /\ UNCHANGED <<mergeVars, buildVars, otherVars, inputVars, contextVars, installed, returned, nextIndex, results, pc, exitCode, run,
                 filesAtStart>>

\* add.ts 526-531
SkipExisting ==
  /\ AtFile
  /\ ~isUtilsFile(target)
  /\ existsSync(target) /\ ~options.overwrite
  /\ SetTop([Top EXCEPT !.file = @ + 1, !.filesSkipped = @ + 1])
  /\ events' = Append(events, Event("skipped", Top.name, target))
  /\ steps' = steps + 1
  /\ UNCHANGED <<mergeVars, buildVars, otherVars, inputVars, contextVars, installed, returned, nextIndex, results, pc, exitCode, files,
                 run, filesAtStart>>

\* a file found in place is left as it is even with overwrite
WriteFileKeepsExisting ==
  /\ AtFile
  /\ ~isUtilsFile(target)
  /\ ~(existsSync(target) /\ ~options.overwrite)
  /\ files' = IF existsSync(target) THEN files ELSE WrittenFiles(target, file.content)
  /\ SetTop([Top EXCEPT !.file = @ + 1, !.filesWritten = @ + 1])
  /\ events' = Append(events, Event("wrote", Top.name, target))
  /\ steps' = steps + 1
  /\ UNCHANGED <<mergeVars, buildVars, otherVars, inputVars, contextVars, installed, returned, nextIndex, results, pc, exitCode, run,
                 filesAtStart>>

\* add.ts 533-536
WriteFile ==
  /\ AtFile
  /\ ~isUtilsFile(target)
  /\ ~(existsSync(target) /\ ~options.overwrite)
  /\ files' = WrittenFiles(target, file.content)
  /\ SetTop([Top EXCEPT !.file = @ + 1, !.filesWritten = @ + 1])
  /\ events' = Append(events, Event("wrote", Top.name, target))
  /\ steps' = steps + 1
  /\ UNCHANGED <<mergeVars, buildVars, otherVars, inputVars, contextVars, installed, returned, nextIndex, results, pc, exitCode, run,
                 filesAtStart>>

\* add.ts 539-561
Succeed ==
  /\ Running /\ Top.pc = "files" /\ Top.file > Len(component.files)
  /\ Return("true")
  /\ events' = Append(events, Event("succeeded", Top.name,
                                    <<Top.filesWritten, Top.filesMerged, Top.filesSkipped>>))
  /\ steps' = steps + 1
  /\ UNCHANGED <<mergeVars, buildVars, otherVars, inputVars, contextVars, installed, nextIndex, results, pc, exitCode, files, run,
                 filesAtStart>>

(***************************************************************************)
(* addComponent (add.ts 584-769) from the loop over the requested names.   *)
(***************************************************************************)
\* the context is made with the framework of the configuration
StartWithConfigFramework ==
  /\ pc = "start"
  /\ options.framework = NoFramework \/ validateFramework(options.framework)
  /\ framework' = config.framework
  /\ pc' = "loop"
  /\ steps' = steps + 1
  /\ UNCHANGED <<mergeVars, buildVars, otherVars, inputVars, installed, stack, returned, nextIndex, results, exitCode,
                 events, files, run, filesAtStart>>

\* add.ts 618-662: the framework of the run, then the context
Start ==
  /\ pc = "start"
  /\ options.framework = NoFramework \/ validateFramework(options.framework)
  /\ framework' = targetFramework
  /\ pc' = "loop"
  /\ steps' = steps + 1
  /\ UNCHANGED <<mergeVars, buildVars, otherVars, inputVars, installed, stack, returned, nextIndex, results, exitCode,
                 events, files, run, filesAtStart>>

\* add.ts 621-626: process.exit(1) on a --framework that is none
RejectFramework ==
  /\ pc = "start"
  /\ options.framework # NoFramework /\ ~validateFramework(options.framework)
  /\ exitCode' = 1
  /\ pc' = "rejected"
  /\ steps' = steps + 1
  /\ UNCHANGED <<mergeVars, buildVars, otherVars, inputVars, contextVars, installed, stack, returned, nextIndex,
                 results, events, files, run, filesAtStart>>

\* add.ts 674-675
LoopCall ==
  /\ pc = "loop" /\ stack = <<>> /\ returned = "none"
  /\ nextIndex <= Len(components)
  /\ stack' = <<NewFrame(components[nextIndex])>>
  /\ steps' = steps + 1
  /\ UNCHANGED <<mergeVars, buildVars, otherVars, inputVars, contextVars, installed, returned, nextIndex, results, pc, exitCode, events,
                 files, run, filesAtStart>>

\* a failure ends the loop over the requested names
LoopResultStopsAtFailure ==
  /\ pc = "loop" /\ stack = <<>> /\ returned # "none"
  /\ results' = IF returned = "true"
                THEN [results EXCEPT !.success = @ + 1]
                ELSE [results EXCEPT !.failed = @ + 1,
                                     !.notFound = Append(@, components[nextIndex])]
  /\ nextIndex' = IF returned = "true" THEN nextIndex + 1 ELSE Len(components) + 1
  /\ returned' = "none"
  /\ steps' = steps + 1
  /\ UNCHANGED <<mergeVars, buildVars, otherVars, inputVars, contextVars, installed, stack, pc, exitCode, events, files, run,
                 filesAtStart>>

\* add.ts 676-681
LoopResult ==
  /\ pc = "loop" /\ stack = <<>> /\ returned # "none"
  /\ results' = IF returned = "true"
                THEN [results EXCEPT !.success = @ + 1]
                ELSE [results EXCEPT !.failed = @ + 1,
                                     !.notFound = Append(@, components[nextIndex])]
  /\ nextIndex' = nextIndex + 1
  /\ returned' = "none"
  /\ steps' = steps + 1
  /\ UNCHANGED <<mergeVars, buildVars, otherVars, inputVars, contextVars, installed, stack, pc, exitCode, events, files, run,
                 filesAtStart>>

\* add.ts 718-760: getAvailableFrameworks is called for each name of
\* results.notFound (the run is not silent)
Suggestions ==
  [k \in 1..Len(results.notFound) |-> Event("probe", results.notFound[k], <<>>)]

\* add.ts 684-763
Summary ==
  /\ pc = "loop" /\ stack = <<>> /\ returned = "none"
  /\ nextIndex > Len(components)
  /\ pc' = "summary"
  /\ events' = events \o Suggestions
  /\ steps' = steps + 1
  /\ UNCHANGED <<mergeVars, buildVars, otherVars, inputVars, contextVars, installed, stack, returned, nextIndex,
                 results, exitCode, files, run, filesAtStart>>

\* the run returns without looking at results.failed
ExitWithZero ==
  /\ pc = "summary"
  /\ exitCode' = 0
  /\ pc' = "done"
  /\ steps' = steps + 1
  /\ UNCHANGED <<mergeVars, buildVars, otherVars, inputVars, contextVars, installed, stack, returned, nextIndex,
                 results, events, files, run, filesAtStart>>

\* add.ts 765-769
Exit ==
  /\ pc = "summary"
  /\ exitCode' = IF results.failed > 0 THEN 1 ELSE 0
  /\ pc' = "done"
  /\ steps' = steps + 1
  /\ UNCHANGED <<mergeVars, buildVars, otherVars, inputVars, contextVars, installed, stack, returned, nextIndex, results, events, files,
                 run, filesAtStart>>

\* the same command once more, on the files the first run left
RunAgain ==
  /\ pc = "done" /\ run = 1
  /\ run' = 2
  /\ filesAtStart' = files
  /\ installed' = {}
  /\ stack' = <<>>
  /\ returned' = "none"
  /\ nextIndex' = 1
  /\ results' = NoResults
  /\ pc' = "start"
  /\ framework' = "unset"
  /\ exitCode' = -1
  /\ events' = <<>>
  /\ steps' = 0
  /\ UNCHANGED <<mergeVars, buildVars, otherVars, inputVars, files>>

\* every step but the utils merge
NextButMerge ==
  \/ SkipInstalled \/ MarkInstalled \/ FetchOk \/ FetchFails
  \/ CallDependency \/ DependencyInstalled \/ DependencyFailed
  \/ PackagesInstalled \/ PackagesFailed
  \/ SkipExisting \/ WriteFile \/ Succeed
  \/ Start \/ RejectFramework
  \/ LoopCall \/ LoopResult \/ Summary \/ Exit

Next == NextButMerge \/ MergeUtils

NextTwice == Next \/ RunAgain

(***************************************************************************)
(* The registry build: src/cli/commands/registry-build.ts, lines 1-466.    *)
(* Paths are sequences of segments relative to process.cwd().              *)
(***************************************************************************)
VALID_EXTENSIONS == {".tsx", ".ts", ".vue", ".jsx", ".js"}
IGNORED_DIRS == {"node_modules", ".git", "dist", "build", "__tests__"}
Roles == <<"ui", "lib", "hooks">>

\* an entry of a role folder: a source file, or a sub-directory (ext = "")
SourceFile(base, ext, description) ==
  [base |-> base, ext |-> ext, kind |-> "file", description |-> description]
SubDirectory(base) ==
  [base |-> base, ext |-> "", kind |-> "dir", description |-> ""]

\* the name readdirSync returns for an entry
fileName(entry) == entry.base \o entry.ext
\* path.extname and path.basename(file, extname(file)) of that name
extname(entry) == entry.ext
componentName(entry) == entry.base

\* registry-build.ts 62-65
isValidComponentFile(entry) == extname(entry) \in VALID_EXTENSIONS

\* registry-build.ts 73-81
getComponentType(dirName) ==
  CASE dirName = "ui" -> "registry:component"
    [] dirName = "lib" -> "registry:lib"
    [] dirName = "hooks" -> "registry:hook"
    [] OTHER -> "registry:component"

\* type.split(":")[1]
typeSuffix(type) ==
  CASE type = "registry:component" -> "component"
    [] type = "registry:lib" -> "lib"
    [] type = "registry:hook" -> "hook"

\* what <framework>/ui, <framework>/lib or <framework>/hooks can be on disk
AbsentFolder == [kind |-> "absent", entries |-> <<>>]
RegularFileFolder == [kind |-> "file", entries |-> <<>>]
Folder(entries) == [kind |-> "dir", entries |-> entries]

\* the contents of a role folder, in readdirSync order
FolderContents ==
  { <<SourceFile("alpha", ".tsx", "")>>,
    <<SourceFile("alpha", ".tsx", "Fades in"), SubDirectory("nested"),
      SourceFile("notes", ".md", ""), SourceFile("beta", ".ts", "")>> }

Folders == {AbsentFolder, RegularFileFolder} \cup {Folder(entries) : entries \in FolderContents}

RoleNames == Range(Roles)
FrameworkTrees == [RoleNames -> Folders]
NoRoles == [r \in RoleNames |-> AbsentFolder]
FolderCount(roles) == Cardinality({r \in RoleNames : roles[r].kind # "absent"})

\* an entry of <cwd>/registry
RootFile(name) == [name |-> name, kind |-> "file", roles |-> NoRoles]
RootDirectory(name, roles) == [name |-> name, kind |-> "dir", roles |-> roles]

MissingRegistry == [exists |-> FALSE, entries |-> <<>>]

\* <cwd>/registry: absent, or a README, an ignored directory that has a ui
\* folder, and the directories react and vue with at most MaxFolders role
\* folders between them
RegistryTrees ==
  {MissingRegistry} \cup
  { [exists |-> TRUE,
     entries |-> <<RootFile("README.md"),
                   RootDirectory("node_modules",
                     [NoRoles EXCEPT !["ui"] = Folder(<<SourceFile("alpha", ".tsx", "")>>)]),
                   RootDirectory("react", react),
                   RootDirectory("vue", vue)>>] :
      <<react, vue>> \in {p \in FrameworkTrees \X FrameworkTrees :
                            FolderCount(p[1]) + FolderCount(p[2]) <= MaxFolders} }

NoBuildFault == [op |-> "none", fw |-> "", role |-> "", name |-> ""]

\* one file operation of the build that throws: statSync or readFileSync of
\* a file that readdirSync listed, or writeFileSync of its artifact
BuildFaults(t) ==
  {NoBuildFault} \cup
  { [op |-> op, fw |-> t.entries[e].name, role |-> r, name |-> fileName(t.entries[e].roles[r].entries[k])] :
      <<op, e, r, k>> \in
        { q \in {"stat", "read", "write"} \X (1..Len(t.entries)) \X RoleNames \X (1..4) :
            /\ t.entries[q[2]].name \notin IGNORED_DIRS
            /\ q[4] <= Len(t.entries[q[2]].roles[q[3]].entries)
            /\ t.entries[q[2]].roles[q[3]].entries[q[4]].kind = "file" } }

\* the entry of the registry root named fw
RECURSIVE RootEntry(_, _)
RootEntry(entries, fw) ==
  IF Head(entries).name = fw THEN Head(entries) ELSE RootEntry(Tail(entries), fw)

\* registry-build.ts 380-395: the filter over readdirSync(registryDir);
\* existsSync is true of a regular file as well as of a directory
RECURSIVE discoverFrameworks(_)
discoverFrameworks(allEntries) ==
  IF allEntries = <<>> THEN <<>>
  ELSE LET dir == Head(allEntries)
           keep == /\ dir.name \notin IGNORED_DIRS
                   /\ dir.kind = "dir"
                   /\ \E r \in RoleNames : dir.roles[r].kind # "absent"
       IN  (IF keep THEN <<dir.name>> ELSE <<>>) \o discoverFrameworks(Tail(allEntries))

(***************************************************************************)
(* extractDependencies (registry-build.ts 94-132).  A specifier is the     *)
(* sequence of its characters; a source text is the sequence of its        *)
(* import statements, each of one form.                                    *)
(***************************************************************************)
\* the characters of the specifiers, in the order of their UTF-16 code units
Alphabet ==
  <<"-", ".", "/", "@", "a", "b", "c", "e", "g", "i", "k", "l", "n", "o", "p", "r", "s", "t",
    "u", "v", "x">>

CodeUnit(c) == CHOOSE i \in 1..Len(Alphabet) : Alphabet[i] = c

\* String.prototype.startsWith
startsWith(s, prefix) == IsPrefix(prefix, s)

\* String.prototype.split with a separator of one character
RECURSIVE split(_, _)
split(s, separator) ==
  IF \A i \in 1..Len(s) : s[i] # separator THEN <<s>>
  ELSE LET i == CHOOSE i \in 1..Len(s) :
                  s[i] = separator /\ \A j \in 1..(i - 1) : s[j] # separator
       IN  <<SubSeq(s, 1, i - 1)>> \o split(SubSeq(s, i + 1, Len(s)), separator)

\* Array.prototype.slice(0, end)
slice(parts, end) == SubSeq(parts, 1, IF end < Len(parts) THEN end ELSE Len(parts))

\* the comparison of Array.prototype.sort without a comparator: by code
\* units, a proper prefix first
RECURSIVE sortsBefore(_, _)
sortsBefore(a, b) ==
  IF a = <<>> THEN b # <<>>
  ELSE IF b = <<>> THEN FALSE
  ELSE IF Head(a) = Head(b) THEN sortsBefore(Tail(a), Tail(b))
  ELSE CodeUnit(Head(a)) < CodeUnit(Head(b))

RECURSIVE insertSorted(_, _)
insertSorted(sorted, s) ==
  IF sorted = <<>> THEN <<s>>
  ELSE IF sortsBefore(s, Head(sorted)) THEN <<s>> \o sorted
  ELSE <<Head(sorted)>> \o insertSorted(Tail(sorted), s)

RECURSIVE sort(_)
sort(list) == IF list = <<>> THEN <<>> ELSE insertSorted(sort(Tail(list)), Head(list))

\* the forms of an import statement:
\*   "es6"          import x from "s"          (pattern 1, line 105)
\*   "require"      require("s")               (pattern 2, line 106)
\*   "dynamic"      import("s")                (pattern 3, line 107)
\*   "side effect"  import "s"                 (no pattern: no `from`, no parenthesis)
\*   "multi-line"   import {<newline> x <newline>} from "s"
\*                                             (no pattern: `.` stops at a newline)
importPatterns == <<"es6", "require", "dynamic">>
Forms == {"es6", "require", "dynamic", "side effect", "multi-line"}

Statement(form, importPath) == [form |-> form, importPath |-> importPath]

\* registry-build.ts 111-113: the captures of one pattern, in text order
RECURSIVE execAll(_, _)
execAll(pattern, content) ==
  IF content = <<>> THEN <<>>
  ELSE (IF Head(content).form = pattern THEN <<Head(content).importPath>> ELSE <<>>)
       \o execAll(pattern, Tail(content))

\* registry-build.ts 116-123; <<>> is the empty string
packageName(importPath) ==
  IF startsWith(importPath, <<"@">>)
  THEN join(slice(split(importPath, "/"), 2), <<"/">>)
  ELSE split(importPath, "/")[1]

\* registry-build.ts 110-129: what the loops add to the set, in order
RECURSIVE addedPackages(_)
addedPackages(importPaths) ==
  IF importPaths = <<>> THEN <<>>
  ELSE LET importPath == Head(importPaths)
           skipped == startsWith(importPath, <<".">>) \/ startsWith(importPath, <<"@", "/">>)
       IN  (IF ~skipped /\ packageName(importPath) # <<>>
            THEN <<packageName(importPath)>> ELSE <<>>)
           \o addedPackages(Tail(importPaths))

\* registry-build.ts 49-54; <<>> where the record has no such key
FRAMEWORK_DEPENDENCIES(fw) ==
  CASE fw = "nextjs" -> <<"n", "e", "x", "t">>
    [] fw = "react" -> <<"r", "e", "a", "c", "t">>
    [] fw = "vue" -> <<"v", "u", "e">>
    [] fw = "angular" -> <<"@", "a", "n", "g", "u", "l", "a", "r", "/", "c", "o", "r", "e">>
    [] OTHER -> <<>>

\* the list is returned as the set holds it, without the sort
extractDependenciesUnsorted(content, fw) ==
  LET baseDep == FRAMEWORK_DEPENDENCIES(fw)
      captured == execAll(importPatterns[1], content) \o execAll(importPatterns[2], content)
                  \o execAll(importPatterns[3], content)
  IN  Dedup((IF baseDep # <<>> THEN <<baseDep>> ELSE <<>>) \o addedPackages(captured))

\* registry-build.ts 94-132
extractDependencies(content, fw) ==
  LET baseDep == FRAMEWORK_DEPENDENCIES(fw)
      captured == execAll(importPatterns[1], content) \o execAll(importPatterns[2], content)
                  \o execAll(importPatterns[3], content)
  IN  sort(Dedup((IF baseDep # <<>> THEN <<baseDep>> ELSE <<>>) \o addedPackages(captured)))

\* the specifiers of the source texts
ImportPaths ==
  { <<"r", "e", "a", "c", "t">>,
    <<"@", "s", "c", "o", "p", "e", "/", "p", "k", "g", "/", "s", "u", "b">>,
    <<".", "/", "l", "o", "c", "a", "l">>,
    <<"@", "/", "i", "n", "t", "e", "r", "n", "a", "l", "-", "a", "l", "i", "a", "s">>,
    <<"v", "u", "e">>, <<"@", "s", "c", "o", "p", "e", "/", "p", "k", "g">>,
    <<"r", "e", "a", "c", "t", "/", "s", "u", "b">>, <<".", ".", "/", "u", "p">>,
    <<"@", "s", "c", "o", "p", "e">>, <<"/", "a", "b", "s">> }

Statements == {Statement(form, importPath) : form \in Forms, importPath \in ImportPaths}

\* a text with the four imports react, @scope/pkg/sub, ./local and
\* @/internal-alias
FourImports ==
  <<Statement("es6", <<"r", "e", "a", "c", "t">>),
    Statement("es6", <<"@", "s", "c", "o", "p", "e", "/", "p", "k", "g", "/", "s", "u", "b">>),
    Statement("es6", <<".", "/", "l", "o", "c", "a", "l">>),
    Statement("es6", <<"@", "/", "i", "n", "t", "e", "r", "n", "a", "l", "-", "a", "l", "i", "a", "s">>)>>

\* the source texts: up to MaxImports import statements, and FourImports
SourceTexts == UNION {[1..k -> Statements] : k \in 0..MaxImports} \cup {FourImports}

\* the directory names the build can meet as frameworks
SourceFrameworks == {"react", "vue", "nextjs", "svelte"}

NotExtracted == <<"not extracted">>

\* extractDependencies is called on the source text
Extract ==
  /\ extracted = NotExtracted
  /\ source \in SourceTexts
  /\ extracted' = extractDependencies(source, sourceFramework)
  /\ UNCHANGED <<source, sourceFramework>>
  /\ UNCHANGED <<mergeVars, installVars, buildVars, initVars, findVars, createVars>>

NextDeps == Extract

IdleDeps ==
  /\ source = NotExtracted
  /\ sourceFramework = "react"
  /\ extracted = NotExtracted

\* registry-build.ts 195-232: the item built from a source file that was
\* read; fileContent.match(/@description\s+(.+)/) is the description field
\* of the source, and the sources of FolderContents import nothing, so
\* the three extract functions find the base package of the framework only
createRegistryItem(entry, fw, role) ==
  LET type == getComponentType(role)
  IN  [name |-> componentName(entry),
       type |-> type,
       description |->
         IF entry.description # "" THEN entry.description
         ELSE componentName(entry) \o " " \o typeSuffix(type) \o " for " \o fw,
       files |-> <<[name |-> fileName(entry), content |-> <<fw, role, fileName(entry)>>]>>,
       dependencies |-> extractDependencies(<<>>, fw),
       devDependencies |-> <<>>,
       registryDependencies |-> <<>>,
       meta |-> [source |-> <<"registry", fw, role, fileName(entry)>>]]

\* registry-build.ts 291-292
outputPath(fw, entry) == <<"public", "r", fw, componentName(entry) \o ".json">>

NoIndex == [written |-> FALSE, body |-> <<>>]

\* registry-build.ts 428-445, without lastUpdated
indexJson ==
  [frameworks |-> frameworks,
   stats |-> [totalComponents |-> stats.components,
              totalUtilities |-> stats.utilities,
              totalFrameworks |-> stats.frameworks]]

NoStats == [components |-> 0, utilities |-> 0, frameworks |-> 0, errors |-> 0]
NoFrameworkStats == [components |-> 0, utilities |-> 0]

\* the framework, role folder and folder entry the build is at
currentFramework == frameworks[fwIndex]
currentRole == Roles[roleIndex]
currentFolder == RootEntry(tree.entries, currentFramework).roles[currentRole]
currentEntry == currentFolder.entries[fileIndex]

Throws(op) ==
  buildFault = [op |-> op, fw |-> currentFramework, role |-> currentRole,
                name |-> fileName(currentEntry)]

BuildEvent(op, path) == [op |-> op, path |-> path]

\* registry-build.ts 370-374
RegistryNotFound ==
  /\ bpc = "start"
  /\ ~tree.exists
  /\ buildLog' = Append(buildLog, BuildEvent("fail", <<"Registry directory not found">>))
  /\ buildExit' = 1
  /\ bpc' = "done"
  /\ UNCHANGED <<buildInputVars, frameworks, stats, fwIndex, roleIndex, fileIndex, processed,
                 fwStats, artifacts, index>>
  /\ UNCHANGED <<mergeVars, installVars, otherVars>>

\* registry-build.ts 377-401
NoFrameworksBuildsAnyway ==
  /\ bpc = "start"
  /\ tree.exists
  /\ discoverFrameworks(tree.entries) = <<>>
  /\ frameworks' = <<>>
  /\ stats' = NoStats
  /\ fwIndex' = 1
  /\ buildLog' = Append(buildLog, BuildEvent("mkdir", <<"public", "r">>))
  /\ bpc' = "frameworks"
  /\ UNCHANGED <<buildInputVars, roleIndex, fileIndex, processed, fwStats, artifacts, index,
                 buildExit>>
  /\ UNCHANGED <<mergeVars, installVars, otherVars>>

\* registry-build.ts 377-401: the output directory is created, then no
\* entry passes the filter
NoFrameworks ==
  /\ bpc = "start"
  /\ tree.exists
  /\ discoverFrameworks(tree.entries) = <<>>
  /\ buildLog' = buildLog \o <<BuildEvent("mkdir", <<"public", "r">>),
                               BuildEvent("fail", <<"No valid framework directories found">>)>>
  /\ buildExit' = 1
  /\ bpc' = "done"
  /\ UNCHANGED <<buildInputVars, frameworks, stats, fwIndex, roleIndex, fileIndex, processed,
                 fwStats, artifacts, index>>
  /\ UNCHANGED <<mergeVars, installVars, otherVars>>

\* registry-build.ts 377-408
Discover ==
  /\ bpc = "start"
  /\ tree.exists
  /\ discoverFrameworks(tree.entries) # <<>>
  /\ frameworks' = discoverFrameworks(tree.entries)
  /\ stats' = [NoStats EXCEPT !.frameworks = Len(frameworks')]
  /\ fwIndex' = 1
  /\ buildLog' = Append(buildLog, BuildEvent("mkdir", <<"public", "r">>))
  /\ bpc' = "frameworks"
  /\ UNCHANGED <<buildInputVars, roleIndex, fileIndex, processed, fwStats, artifacts, index,
                 buildExit>>
  /\ UNCHANGED <<mergeVars, installVars, otherVars>>

\* registry-build.ts 411-418, 308-316: processFramework is called
EnterFramework ==
  /\ bpc = "frameworks"
  /\ fwIndex <= Len(frameworks)
  /\ fwStats' = NoFrameworkStats
  /\ roleIndex' = 1
  /\ buildLog' = Append(buildLog, BuildEvent("mkdir", <<"public", "r", currentFramework>>))
  /\ bpc' = "role"
  /\ UNCHANGED <<buildInputVars, frameworks, stats, fwIndex, fileIndex, processed, artifacts,
                 index, buildExit>>
  /\ UNCHANGED <<mergeVars, installVars, otherVars>>

\* registry-build.ts 320, 332, 344: existsSync of the role folder is false
SkipRole ==
  /\ bpc = "role"
  /\ roleIndex <= Len(Roles)
  /\ currentFolder.kind = "absent"
  /\ roleIndex' = roleIndex + 1
  /\ UNCHANGED <<buildInputVars, bpc, frameworks, stats, fwIndex, fileIndex, processed, fwStats,
                 artifacts, index, buildExit, buildLog>>
  /\ UNCHANGED <<mergeVars, installVars, otherVars>>

\* the catch of registry-build.ts 422-425: processFramework threw
FrameworkFailed ==
  /\ stats' = [stats EXCEPT !.errors = @ + 1]
  /\ buildLog' = Append(buildLog, BuildEvent("error", <<"Failed to process framework", currentFramework>>))
  /\ fwIndex' = fwIndex + 1
  /\ bpc' = "frameworks"

\* registry-build.ts 264-269: the role folder exists but is a regular file,
\* readdirSync throws
RoleNotDirectory ==
  /\ bpc = "role"
  /\ roleIndex <= Len(Roles)
  /\ currentFolder.kind = "file"
  /\ FrameworkFailed
  /\ UNCHANGED <<buildInputVars, frameworks, roleIndex, fileIndex, processed, fwStats,
                 artifacts, index, buildExit>>
  /\ UNCHANGED <<mergeVars, installVars, otherVars>>

\* registry-build.ts 264-269: processDirectory lists the role folder
EnterRole ==
  /\ bpc = "role"
  /\ roleIndex <= Len(Roles)
  /\ currentFolder.kind = "dir"
  /\ processed' = 0
  /\ fileIndex' = 1
  /\ bpc' = "files"
  /\ UNCHANGED <<buildInputVars, frameworks, stats, fwIndex, roleIndex, fwStats, artifacts,
                 index, buildExit, buildLog>>
  /\ UNCHANGED <<mergeVars, installVars, otherVars>>

AtEntry == bpc = "files" /\ fileIndex <= Len(currentFolder.entries)

\* registry-build.ts 273: statSync throws, outside any try of
\* processDirectory and processFramework
StatThrows ==
  /\ AtEntry
  /\ Throws("stat")
  /\ FrameworkFailed
  /\ UNCHANGED <<buildInputVars, frameworks, roleIndex, fileIndex, processed, fwStats,
                 artifacts, index, buildExit>>
  /\ UNCHANGED <<mergeVars, installVars, otherVars>>

\* registry-build.ts 276-282
SkipEntry ==
  /\ AtEntry
  /\ ~Throws("stat")
  /\ currentEntry.kind = "dir" \/ ~isValidComponentFile(currentEntry)
  /\ fileIndex' = fileIndex + 1
  /\ UNCHANGED <<buildInputVars, bpc, frameworks, stats, fwIndex, roleIndex, processed, fwStats,
                 artifacts, index, buildExit, buildLog>>
  /\ UNCHANGED <<mergeVars, installVars, otherVars>>

Eligible ==
  /\ AtEntry
  /\ ~Throws("stat")
  /\ currentEntry.kind = "file"
  /\ isValidComponentFile(currentEntry)

\* registry-build.ts 203, 233-236, 287-289: readFileSync throws inside
\* createRegistryItem, which logs and returns null
ReadThrows ==
  /\ Eligible
  /\ Throws("read")
  /\ buildLog' = Append(buildLog, BuildEvent("error",
                   <<"Failed to process", currentFramework, currentRole, fileName(currentEntry)>>))
  /\ fileIndex' = fileIndex + 1
  /\ UNCHANGED <<buildInputVars, bpc, frameworks, stats, fwIndex, roleIndex, processed, fwStats,
                 artifacts, index, buildExit>>
  /\ UNCHANGED <<mergeVars, installVars, otherVars>>

\* registry-build.ts 243-250: ensureDirectory(basename(outputPath)) makes
\* the directory <name>.json under the working directory, then
\* writeFileSync throws and writeRegistryItem returns false
WriteThrows ==
  /\ Eligible
  /\ ~Throws("read")
  /\ Throws("write")
  /\ buildLog' = buildLog \o
       <<BuildEvent("mkdir", <<componentName(currentEntry) \o ".json">>),
         BuildEvent("error", <<"Failed to write">> \o outputPath(currentFramework, currentEntry))>>
  /\ fileIndex' = fileIndex + 1
  /\ UNCHANGED <<buildInputVars, bpc, frameworks, stats, fwIndex, roleIndex, processed, fwStats,
                 artifacts, index, buildExit>>
  /\ UNCHANGED <<mergeVars, installVars, otherVars>>

\* registry-build.ts 286-296: the item is assembled and written
WriteItemCountsNothing ==
  /\ Eligible
  /\ ~Throws("read")
  /\ ~Throws("write")
  /\ LET path == outputPath(currentFramework, currentEntry)
         item == createRegistryItem(currentEntry, currentFramework, currentRole)
     IN  /\ artifacts' = [p \in DOMAIN artifacts \cup {path} |->
                            IF p = path THEN item ELSE artifacts[p]]
         /\ buildLog' = buildLog \o
              <<BuildEvent("mkdir", <<componentName(currentEntry) \o ".json">>),
                [op |-> "write", path |-> path, role |-> currentRole, item |-> item]>>
  /\ fileIndex' = fileIndex + 1
  /\ UNCHANGED <<buildInputVars, bpc, frameworks, stats, fwIndex, roleIndex, processed, fwStats,
                 index, buildExit>>
  /\ UNCHANGED <<mergeVars, installVars, otherVars>>

WriteItem ==
  /\ Eligible
  /\ ~Throws("read")
  /\ ~Throws("write")
  /\ LET path == outputPath(currentFramework, currentEntry)
         item == createRegistryItem(currentEntry, currentFramework, currentRole)
     IN  /\ artifacts' = [p \in DOMAIN artifacts \cup {path} |->
                            IF p = path THEN item ELSE artifacts[p]]
         /\ buildLog' = buildLog \o
              <<BuildEvent("mkdir", <<componentName(currentEntry) \o ".json">>),
                [op |-> "write", path |-> path, role |-> currentRole, item |-> item]>>
  /\ processed' = processed + 1
  /\ fileIndex' = fileIndex + 1
  /\ UNCHANGED <<buildInputVars, bpc, frameworks, stats, fwIndex, roleIndex, fwStats, index,
                 buildExit>>
  /\ UNCHANGED <<mergeVars, installVars, otherVars>>

\* registry-build.ts 299, 321, 333, 345-352: processDirectory returns
LeaveRole ==
  /\ bpc = "files"
  /\ fileIndex > Len(currentFolder.entries)
  /\ fwStats' = CASE currentRole = "ui" -> [fwStats EXCEPT !.components = processed]
                  [] currentRole = "lib" -> [fwStats EXCEPT !.utilities = processed]
                  [] currentRole = "hooks" -> [fwStats EXCEPT !.utilities = @ + processed]
  /\ roleIndex' = roleIndex + 1
  /\ bpc' = "role"
  /\ UNCHANGED <<buildInputVars, frameworks, stats, fwIndex, fileIndex, processed, artifacts,
                 index, buildExit, buildLog>>
  /\ UNCHANGED <<mergeVars, installVars, otherVars>>

\* registry-build.ts 355, 420-421: processFramework returns its stats
FrameworkDone ==
  /\ bpc = "role"
  /\ roleIndex > Len(Roles)
  /\ stats' = [stats EXCEPT !.components = @ + fwStats.components,
                            !.utilities = @ + fwStats.utilities]
  /\ fwIndex' = fwIndex + 1
  /\ bpc' = "frameworks"
  /\ UNCHANGED <<buildInputVars, frameworks, roleIndex, fileIndex, processed, fwStats,
                 artifacts, index, buildExit, buildLog>>
  /\ UNCHANGED <<mergeVars, installVars, otherVars>>

\* registry-build.ts 428-459: index.json is written and buildRegistry returns
WriteIndex ==
  /\ bpc = "frameworks"
  /\ fwIndex > Len(frameworks)
  /\ index' = [written |-> TRUE, body |-> indexJson]
  /\ buildLog' = Append(buildLog, BuildEvent("index", <<"public", "r", "index.json">>))
  /\ buildExit' = 0
  /\ bpc' = "done"
  /\ UNCHANGED <<buildInputVars, frameworks, stats, fwIndex, roleIndex, fileIndex, processed,
                 fwStats, artifacts>>
  /\ UNCHANGED <<mergeVars, installVars, otherVars>>

NextBuild ==
  \/ RegistryNotFound
  \/ NoFrameworks
  \/ Discover
  \/ EnterFramework
  \/ SkipRole
  \/ RoleNotDirectory
  \/ EnterRole
  \/ StatThrows
  \/ SkipEntry
  \/ ReadThrows
  \/ WriteThrows
  \/ WriteItem
  \/ LeaveRole
  \/ FrameworkDone
  \/ WriteIndex

BuildStart ==
  /\ bpc = "start"
  /\ frameworks = <<>>
  /\ stats = NoStats
  /\ fwIndex = 1
  /\ roleIndex = 1
  /\ fileIndex = 1
  /\ processed = 0
  /\ fwStats = NoFrameworkStats
  /\ artifacts = <<>>
  /\ index = NoIndex
  /\ buildExit = -1
  /\ buildLog = <<>>

IdleBuild ==
  /\ tree = MissingRegistry
  /\ buildFault = NoBuildFault
  /\ bpc = "idle"
  /\ frameworks = <<>>
  /\ stats = NoStats
  /\ fwIndex = 1
  /\ roleIndex = 1
  /\ fileIndex = 1
  /\ processed = 0
  /\ fwStats = NoFrameworkStats
  /\ artifacts = <<>>
  /\ index = NoIndex
  /\ buildExit = -1
  /\ buildLog = <<>>

(***************************************************************************)
(* clipmotion init: src/cli/commands/init.ts.                              *)
(***************************************************************************)
\* what detectFramework can find in the project directory
ProjectKinds ==
  {"next.config.js", "angular.json", "package.json with next", "package.json with vue",
   "package.json with react", "package.json that does not parse", "nothing"}

\* init.ts 18-47; NoFramework is null
detectFramework(kind) ==
  CASE kind = "next.config.js" -> "nextjs"
    [] kind = "angular.json" -> "angular"
    [] kind = "package.json with next" -> "nextjs"
    [] kind = "package.json with vue" -> "vue"
    [] kind = "package.json with react" -> "react"
    [] OTHER -> NoFramework

InitFrameworks == {"nextjs", "react", "vue", "angular"}

\* init.ts 104-133; NoPath is an absent componentsDir
getDefaultPaths(fw, componentsDir) ==
  LET defaultComponentsDir == IF componentsDir # NoPath THEN componentsDir ELSE <<"components">>
      angularDir == IF componentsDir # NoPath THEN componentsDir ELSE <<"app", "components">>
  IN  CASE fw \in {"nextjs", "react"} ->
             [components |-> defaultComponentsDir, utils |-> defaultComponentsDir \o <<"utils">>]
        [] fw = "vue" ->
             [components |-> defaultComponentsDir, utils |-> <<"utils">>]
        [] fw = "angular" ->
             [components |-> angularDir, utils |-> angularDir \o <<"utils">>]

\* init.ts 155-165, the fields the installer reads
buildConfig(fw, componentsDir) ==
  [exists |-> TRUE, framework |-> fw, aliases |-> getDefaultPaths(fw, componentsDir)]

NoConfigFile ==
  [exists |-> FALSE, framework |-> NoFramework,
   aliases |-> [components |-> NoPath, utils |-> NoPath]]

\* init.ts 167-176
getFrameworkDeps(fw) ==
  CASE fw \in {"nextjs", "react"} -> <<"clsx", "tailwind-merge">>
    [] fw = "vue" -> <<"clsx">>
    [] fw = "angular" -> <<>>

\* mkdirSync(path, {recursive: true}): the directory and those above it
Created(path) == {SubSeq(path, 1, k) : k \in 1..Len(path)}

InitOptionSets ==
  [interactive : BOOLEAN,
   framework : InitFrameworks \cup {NoFramework},
   componentsDir : {NoPath, <<"src", "ui">>}]

\* init.ts 203-226: the frameworks the run can end up with
frameworkChoices ==
  IF initOptions.framework # NoFramework THEN {initOptions.framework}
  ELSE IF detectFramework(project) # NoFramework /\ initOptions.interactive
         THEN InitFrameworks
  ELSE IF detectFramework(project) # NoFramework THEN {detectFramework(project)}
  ELSE IF initOptions.interactive THEN InitFrameworks
  ELSE {"react"}

UnchangedByInit ==
  UNCHANGED <<mergeVars, installVars, buildVars, depVars, findVars, createVars>>

\* the configuration is written over without a question
ConfigExistsOverwrites ==
  /\ ipc = "start"
  /\ configFile.exists /\ ~initOptions.interactive
  /\ \E fw \in frameworkChoices : initFramework' = fw
  /\ ipc' = "write"
  /\ UNCHANGED <<project, configFile, directories, initOptions, initFault, initOutcome, initRun,
                 configAtStart, directoriesAtStart>>
  /\ UnchangedByInit

\* init.ts 198-201
ConfigExistsThrows ==
  /\ ipc = "start"
  /\ configFile.exists /\ ~initOptions.interactive
  /\ initOutcome' = "Error: Config file already exists"
  /\ ipc' = "done"
  /\ UNCHANGED <<project, configFile, directories, initOptions, initFault, initFramework, initRun,
                 configAtStart, directoriesAtStart>>
  /\ UnchangedByInit

\* init.ts 186-197: the user does not confirm the overwrite
SetupCancelled ==
  /\ ipc = "start"
  /\ configFile.exists /\ initOptions.interactive
  /\ initOutcome' = "process.exit(0)"
  /\ ipc' = "done"
  /\ UNCHANGED <<project, configFile, directories, initOptions, initFault, initFramework, initRun,
                 configAtStart, directoriesAtStart>>
  /\ UnchangedByInit

\* init.ts 185-226: no configuration, or the overwrite is confirmed; the
\* framework is the option, the detected one, the answer to a prompt or react
ChooseFramework ==
  /\ ipc = "start"
  /\ ~configFile.exists \/ initOptions.interactive
  /\ \E fw \in frameworkChoices : initFramework' = fw
  /\ ipc' = "write"
  /\ UNCHANGED <<project, configFile, directories, initOptions, initFault, initOutcome, initRun,
                 configAtStart, directoriesAtStart>>
  /\ UnchangedByInit

\* init.ts 229-251
SaveConfig ==
  /\ ipc = "write"
  /\ initFault # "write"
  /\ configFile' = buildConfig(initFramework, initOptions.componentsDir)
  /\ ipc' = "directories"
  /\ UNCHANGED <<project, directories, initOptions, initFault, initFramework, initOutcome, initRun,
                 configAtStart, directoriesAtStart>>
  /\ UnchangedByInit

\* init.ts 251-261: writeFileSync throws
SaveConfigThrows ==
  /\ ipc = "write"
  /\ initFault = "write"
  /\ initOutcome' = "Error: write"
  /\ ipc' = "done"
  /\ UNCHANGED <<project, configFile, directories, initOptions, initFault, initFramework, initRun,
                 configAtStart, directoriesAtStart>>
  /\ UnchangedByInit

\* init.ts 135-149, 264
ensureDirectories ==
  /\ ipc = "directories"
  /\ directories' = directories \cup Created(configFile.aliases.components)
                                \cup Created(configFile.aliases.utils)
  /\ ipc' = "dependencies"
  /\ UNCHANGED <<project, configFile, initOptions, initFault, initFramework, initOutcome, initRun,
                 configAtStart, directoriesAtStart>>
  /\ UnchangedByInit

installsDeps == getFrameworkDeps(initFramework) # <<>> /\ initOptions.interactive

\* init.ts 266-271, 70-98: the package manager fails
InstallDepsThrows ==
  /\ ipc = "dependencies"
  /\ installsDeps /\ initFault = "install"
  /\ initOutcome' = "Error: install"
  /\ ipc' = "done"
  /\ UNCHANGED <<project, configFile, directories, initOptions, initFault, initFramework, initRun,
                 configAtStart, directoriesAtStart>>
  /\ UnchangedByInit

\* init.ts 266-288
InitReturns ==
  /\ ipc = "dependencies"
  /\ ~(installsDeps /\ initFault = "install")
  /\ initOutcome' = "returned"
  /\ ipc' = "done"
  /\ UNCHANGED <<project, configFile, directories, initOptions, initFault, initFramework, initRun,
                 configAtStart, directoriesAtStart>>
  /\ UnchangedByInit

\* init is called again in the same directory, with any options
InitAgain ==
  /\ ipc = "done"
  /\ initRun = 1
  /\ initOutcome = "returned"
  /\ initOptions' \in InitOptionSets
  /\ initRun' = 2
  /\ initOutcome' = "none"
  /\ initFramework' = NoFramework
  /\ configAtStart' = configFile
  /\ directoriesAtStart' = directories
  /\ ipc' = "start"
  /\ UNCHANGED <<project, configFile, directories, initFault>>
  /\ UnchangedByInit

NextInit ==
  \/ ConfigExistsThrows
  \/ SetupCancelled
  \/ ChooseFramework
  \/ SaveConfig
  \/ SaveConfigThrows
  \/ ensureDirectories
  \/ InstallDepsThrows
  \/ InitReturns
  \/ InitAgain

IdleInit ==
  /\ project = "nothing"
  /\ configFile = NoConfigFile
  /\ directories = {}
  /\ initOptions = [interactive |-> FALSE, framework |-> NoFramework, componentsDir |-> NoPath]
  /\ initFault = "none"
  /\ ipc = "idle"
  /\ initFramework = NoFramework
  /\ initOutcome = "none"
  /\ initRun = 1
  /\ configAtStart = NoConfigFile
  /\ directoriesAtStart = {}

(***************************************************************************)
(* clipmotion find: findComponent (src/unnamed/part_003, 670-835).         *)
(***************************************************************************)
\* clipmotion-components.json of the project as find meets it
FindConfigs == {"no file", "not JSON", "no framework field", "react", "vue"}

\* part_003 417-436 and 712: the framework of the configuration, or null
configuredFramework(cfg) ==
  IF cfg \in {"no file", "not JSON", "no framework field"} THEN NoFramework ELSE cfg

NoAnimation == [id |-> "", libraries |-> {}, demoUrl |-> FALSE]

\* the entry of the index whose sources hold the url, if there is one
Animations ==
  {NoAnimation} \cup
  [id : {"fade-in"}, libraries : {{"react"}, {"nextjs", "vue"}, {"react", "vue"}},
   demoUrl : BOOLEAN]

FindInputs ==
  [validUrl : BOOLEAN,
   config : FindConfigs,
   index : {"fetch fails", "no animations array", "animations"},
   install : BOOLEAN]

\* part_003 596-624: the actions promptUserAction can return
userActions ==
  IF findInput.install THEN {"install"}
  ELSE {"install", "guide", "exit"} \cup (IF animation.demoUrl THEN {"demo"} ELSE {})

UnchangedByFind ==
  UNCHANGED <<mergeVars, installVars, buildVars, depVars, initVars, createVars>>

FindEnds(message) ==
  /\ findLog' = Append(findLog, message)
  /\ fpc' = "done"
  /\ UNCHANGED <<findInput, animation, findAction, addCalls>>
  /\ UnchangedByFind

\* part_003 700-707
InvalidUrl ==
  /\ fpc = "start"
  /\ ~findInput.validUrl
  /\ FindEnds("Invalid URL provided")

\* part_003 711-722, 823-834: fetchRegistryIndex throws
FetchIndexFails ==
  /\ fpc = "start"
  /\ findInput.validUrl
  /\ findInput.index = "fetch fails"
  /\ FindEnds("Failed to search for animation")

\* part_003 724-735
NoAnimationsArray ==
  /\ fpc = "start"
  /\ findInput.validUrl
  /\ findInput.index = "no animations array"
  /\ FindEnds("No animations found in registry")

\* part_003 737-769: findAnimationByUrl returns null
AnimationNotFound ==
  /\ fpc = "start"
  /\ findInput.validUrl
  /\ findInput.index = "animations"
  /\ animation = NoAnimation
  /\ FindEnds("Animation not found in registry")

\* part_003 771-775: the animation is shown and the action is asked for,
\* or taken from --install
ChooseAction ==
  /\ fpc = "start"
  /\ findInput.validUrl
  /\ findInput.index = "animations"
  /\ animation # NoAnimation
  /\ findAction' \in userActions
  /\ findLog' = Append(findLog, "Animation found!")
  /\ fpc' = "action"
  /\ UNCHANGED <<findInput, animation, addCalls>>
  /\ UnchangedByFind

projectFramework == configuredFramework(findInput.config)

\* part_003 778-790
InstallNotAvailable ==
  /\ fpc = "action" /\ findAction = "install"
  /\ projectFramework # NoFramework
  /\ projectFramework \notin animation.libraries
  /\ FindEnds("Cannot install: Component not available")

\* part_003 792-796
InstallNotInitialized ==
  /\ fpc = "action" /\ findAction = "install"
  /\ projectFramework = NoFramework
  /\ FindEnds("Project not initialized")

\* the installer is called whatever the framework of the project
InstallStartsUnchecked ==
  /\ fpc = "action" /\ findAction = "install"
  /\ projectFramework = NoFramework \/ projectFramework \in animation.libraries
  /\ addCalls' = Append(addCalls, <<animation.id>>)
  /\ findLog' = findLog
  /\ fpc' = "done"
  /\ UNCHANGED <<findInput, animation, findAction>>
  /\ UnchangedByFind

\* part_003 798-804: addComponent([animation.id], ...) is called
InstallStarts ==
  /\ fpc = "action" /\ findAction = "install"
  /\ projectFramework # NoFramework
  /\ projectFramework \in animation.libraries
  /\ addCalls' = Append(addCalls, <<animation.id>>)
  /\ findLog' = findLog
  /\ fpc' = "done"
  /\ UNCHANGED <<findInput, animation, findAction>>
  /\ UnchangedByFind

\* part_003 807-820: demo, guide and exit install nothing
OtherAction ==
  /\ fpc = "action" /\ findAction # "install"
  /\ FindEnds(findAction)

NextFind ==
  \/ InvalidUrl
  \/ FetchIndexFails
  \/ NoAnimationsArray
  \/ AnimationNotFound
  \/ ChooseAction
  \/ InstallNotAvailable
  \/ InstallNotInitialized
  \/ InstallStarts
  \/ OtherAction

IdleFind ==
  /\ findInput = [validUrl |-> FALSE, config |-> "no file", index |-> "fetch fails",
                  install |-> FALSE]
  /\ animation = NoAnimation
  /\ findAction = "none"
  /\ findLog = <<>>
  /\ addCalls = <<>>
  /\ fpc = "idle"

(***************************************************************************)
(* clipmotion create: createComponent (src/cli/commands/types.ts).         *)
(***************************************************************************)
MaxName == 2

NameAlphabet == {"a", "A", " ", "!"}

\* the names a user can give, as sequences of characters
ComponentNames == UNION {[1..n -> NameAlphabet] : n \in 0..MaxName}

lowerCased(c) == IF c = "A" THEN "a" ELSE c

RECURSIVE toKebabCase(_)
\* types.ts 214-219: lower case, every run of white space becomes one
\* hyphen, and what is then not in [a-z0-9-] is dropped
toKebabCase(str) ==
  IF str = <<>> THEN <<>>
  ELSE LET c == lowerCased(Head(str))
           rest == toKebabCase(Tail(str))
       IN  IF c = " "
           THEN IF Tail(str) # <<>> /\ Head(Tail(str)) = " "
                THEN rest
                ELSE <<"-">> \o rest
           ELSE IF c \in {"a", "-"} THEN <<c>> \o rest ELSE rest

\* types.ts 228-230: /^[a-z0-9-]+$/
validateComponentName(name) ==
  /\ name # <<>>
  /\ \A i \in 1..Len(name) : name[i] \in {"a", "-"}

CreateFrameworks == {"nextjs", "react", "vue", "angular"}

FilePath(fw, folder, base, ext) ==
  [framework |-> fw, folder |-> folder, base |-> base, ext |-> ext]

\* types.ts 599
componentExt(fw) == IF fw = "vue" THEN ".vue" ELSE ".tsx"

\* types.ts 602, 613, 623, 628
componentPath(fw, name) == FilePath(fw, "ui", name, componentExt(fw))
readmePath(fw, name) == FilePath(fw, "", name, ".README.md")
examplePath(fw, name) == FilePath(fw, "examples", name, componentExt(fw))
guidePath(fw) == FilePath(fw, "", <<>>, "CONTRIBUTING.md")

File(path, content) == [path |-> path, content |-> content]

\* writeFileSync: the file at the path has the content afterwards
writeFileSync(fs, path, content) ==
  {f \in fs : f.path # path} \cup {File(path, content)}

fileExists(fs, path) == \E f \in fs : f.path = path

\* the files of a component that was created or written by hand earlier
ExistingComponent(fw, name, ext) ==
  { File(FilePath(fw, "ui", name, ext), "old"),
    File(readmePath(fw, name), "old"),
    File(FilePath(fw, "examples", name, ext), "old") }

ExistingNames == {<<"a">>, <<"a", "-">>}

ExistingExtensions == {".tsx", ".vue", ".jsx"}

RegistrySources ==
  {{}} \cup
  { ExistingComponent(fw, name, ext) :
      fw \in CreateFrameworks, name \in ExistingNames, ext \in ExistingExtensions }

Guides == {{}} \cup { {File(guidePath(fw), "old")} : fw \in {"react", "vue"} }

CreateInputs ==
  [name : ComponentNames,
   framework : CreateFrameworks \cup {NoFramework},
   fault : {"none", "write throws"}]

kebabName == toKebabCase(createInput.name)

\* types.ts 668-671: the check createComponent makes
existing ==
  \E fw \in CreateFrameworks :
    fileExists(createFiles, FilePath(fw, "ui", kebabName, ".tsx"))

UnchangedByCreate ==
  UNCHANGED <<mergeVars, installVars, buildVars, depVars, initVars, findVars>>

CreateExits(code) ==
  /\ cpc' = "exited"
  /\ createExit' = code
  /\ UNCHANGED <<createInput, createFilesAtStart, details>>

\* types.ts 656-663
InvalidName ==
  /\ cpc = "start"
  /\ ~validateComponentName(kebabName)
  /\ CreateExits(1)
  /\ UNCHANGED <<createFiles, registryDir, asked, overwriteAnswer>>
  /\ UnchangedByCreate

\* types.ts 666-671 and 686: nothing to ask
NotExisting ==
  /\ cpc = "start"
  /\ validateComponentName(kebabName)
  /\ ~(registryDir /\ existing)
  /\ cpc' = "details"
  /\ UNCHANGED <<createInput, createFiles, createFilesAtStart, registryDir, asked,
                 overwriteAnswer, details, createExit>>
  /\ UnchangedByCreate

\* types.ts 673-683: the user declines
DeclineOverwrite ==
  /\ cpc = "start"
  /\ validateComponentName(kebabName)
  /\ registryDir /\ existing
  /\ asked' = TRUE
  /\ overwriteAnswer' = FALSE
  /\ CreateExits(0)
  /\ UNCHANGED <<createFiles, registryDir>>
  /\ UnchangedByCreate

\* types.ts 673-683: the user confirms
ConfirmOverwrite ==
  /\ cpc = "start"
  /\ validateComponentName(kebabName)
  /\ registryDir /\ existing
  /\ asked' = TRUE
  /\ overwriteAnswer' = TRUE
  /\ cpc' = "details"
  /\ UNCHANGED <<createInput, createFiles, createFilesAtStart, registryDir, details,
                 createExit>>
  /\ UnchangedByCreate

\* types.ts 504-515 and 694: the framework of the options, or the selected one
PromptForDetails ==
  /\ cpc = "details"
  /\ details' \in (IF createInput.framework # NoFramework
                   THEN {createInput.framework} ELSE CreateFrameworks)
  /\ cpc' = "files"
  /\ UNCHANGED <<createInput, createFiles, createFilesAtStart, registryDir, asked,
                 overwriteAnswer, createExit>>
  /\ UnchangedByCreate

\* types.ts 580-638
createComponentFiles(fs, name, fw) ==
  LET one == writeFileSync(fs, componentPath(fw, name), "new")
      two == writeFileSync(one, readmePath(fw, name), "new")
      three == writeFileSync(two, examplePath(fw, name), "new")
  IN  IF fileExists(three, guidePath(fw)) THEN three
      ELSE writeFileSync(three, guidePath(fw), "new")

\* types.ts 699-701
CreateFiles ==
  /\ cpc = "files"
  /\ createInput.fault = "none"
  /\ createFiles' = createComponentFiles(createFiles, kebabName, details)
  /\ registryDir' = TRUE
  /\ cpc' = "done"
  /\ UNCHANGED <<createInput, createFilesAtStart, asked, overwriteAnswer, details,
                 createExit>>
  /\ UnchangedByCreate

\* types.ts 610 and 716-720: the write of the README throws after the
\* component file was written
CreateFilesThrows ==
  /\ cpc = "files"
  /\ createInput.fault = "write throws"
  /\ createFiles' = writeFileSync(createFiles, componentPath(details, kebabName), "new")
  /\ registryDir' = TRUE
  /\ CreateExits(1)
  /\ UNCHANGED <<asked, overwriteAnswer>>
  /\ UnchangedByCreate

NextCreate ==
  \/ InvalidName
  \/ NotExisting
  \/ DeclineOverwrite
  \/ ConfirmOverwrite
  \/ PromptForDetails
  \/ CreateFiles
  \/ CreateFilesThrows

IdleCreate ==
  /\ createInput = [name |-> <<>>, framework |-> NoFramework, fault |-> "none"]
  /\ createFiles = {}
  /\ createFilesAtStart = {}
  /\ registryDir = FALSE
  /\ asked = FALSE
  /\ overwriteAnswer = FALSE
  /\ details = NoFramework
  /\ createExit = -1
  /\ cpc = "idle"

IdleOthers ==
  /\ IdleDeps
  /\ IdleInit
  /\ IdleFind
  /\ IdleCreate

Init ==
  /\ InitInstall
  /\ utilsFile = Absent
  /\ mergeLog = <<>>
  /\ IdleBuild
  /\ IdleOthers

Spec == Init /\ [][Next]_vars

\* the command run twice in succession
SpecTwice == Init /\ [][NextTwice]_vars

\* the installer at rest, for the specification of the merger alone
IdleInstall ==
  /\ registry = [n \in Names |-> Catalog[n] @@ [registryDependencies |-> <<>>]]
  /\ fault = NoFault
  /\ config \in {c \in Configs : c.framework = "react"}
  /\ options = [overwrite |-> FALSE, path |-> NoPath, framework |-> NoFramework]
  /\ components = <<>>
  /\ framework = config.framework
  /\ files = <<>>
  /\ installed = {}
  /\ stack = <<>>
  /\ returned = "none"
  /\ nextIndex = 1
  /\ results = NoResults
  /\ pc = "done"
  /\ exitCode = 0
  /\ events = <<>>
  /\ steps = 0
  /\ run = 2
  /\ filesAtStart = <<>>

InitMerge ==
  /\ utilsFile \in ExistingFiles
  /\ mergeLog = <<>>
  /\ IdleInstall
  /\ IdleBuild
  /\ IdleOthers

\* one call of mergeUtilsFile on the utils file, the incoming content and the
\* overwrite option being the caller's
Merge ==
  /\ Len(mergeLog) < MaxMerges
  /\ \E newContent \in IncomingContents, overwrite \in BOOLEAN :
       LET r == mergeUtilsFile(utilsFile, newContent, overwrite)
       IN /\ utilsFile' = r.content
          /\ mergeLog' = Append(mergeLog,
                                [before |-> utilsFile, newContent |-> newContent,
                                 overwrite |-> overwrite, result |-> r.result])
  /\ UNCHANGED <<installVars, buildVars, otherVars>>

NextMerge == Merge

SpecMerge == InitMerge /\ [][NextMerge]_vars

\* the state when `clipmotion registry:build` is started in a directory
\* whose public/r is empty
InitBuild ==
  /\ tree \in RegistryTrees
  /\ buildFault \in BuildFaults(tree)
  /\ BuildStart
  /\ utilsFile = Absent
  /\ mergeLog = <<>>
  /\ IdleInstall
  /\ IdleOthers

SpecBuild == InitBuild /\ [][NextBuild]_vars

\* extractDependencies on every source text and framework
InitDeps ==
  /\ source \in SourceTexts
  /\ sourceFramework \in SourceFrameworks
  /\ extracted = NotExtracted
  /\ utilsFile = Absent
  /\ mergeLog = <<>>
  /\ IdleInstall
  /\ IdleBuild
  /\ IdleInit
  /\ IdleFind
  /\ IdleCreate

SpecDeps == InitDeps /\ [][NextDeps]_vars

\* init in a directory that has a configuration or not, then once more
InitInit ==
  /\ project \in ProjectKinds
  /\ configFile \in {NoConfigFile, buildConfig("vue", NoPath), buildConfig("react", <<"src", "ui">>)}
  /\ directories \in {{}, {<<"components">>}}
  /\ initOptions \in InitOptionSets
  /\ initFault \in {"none", "write", "install"}
  /\ ipc = "start"
  /\ initFramework = NoFramework
  /\ initOutcome = "none"
  /\ initRun = 1
  /\ configAtStart = configFile
  /\ directoriesAtStart = directories
  /\ utilsFile = Absent
  /\ mergeLog = <<>>
  /\ IdleInstall
  /\ IdleBuild
  /\ IdleDeps
  /\ IdleFind
  /\ IdleCreate

SpecInit == InitInit /\ [][NextInit]_vars

\* find for a url, in a project with or without a configuration
InitFind ==
  /\ findInput \in FindInputs
  /\ animation \in Animations
  /\ findAction = "none"
  /\ findLog = <<>>
  /\ addCalls = <<>>
  /\ fpc = "start"
  /\ utilsFile = Absent
  /\ mergeLog = <<>>
  /\ IdleInstall
  /\ IdleBuild
  /\ IdleDeps
  /\ IdleInit
  /\ IdleCreate

SpecFind == InitFind /\ [][NextFind]_vars

\* create in a checkout with or without registry/, a component and a guide
InitCreate ==
  /\ createInput \in CreateInputs
  /\ \E sources \in RegistrySources, guide \in Guides :
       createFiles = sources \cup guide
  /\ createFilesAtStart = createFiles
  /\ registryDir \in BOOLEAN
  /\ createFiles # {} => registryDir
  /\ asked = FALSE
  /\ overwriteAnswer = FALSE
  /\ details = NoFramework
  /\ createExit = -1
  /\ cpc = "start"
  /\ utilsFile = Absent
  /\ mergeLog = <<>>
  /\ IdleInstall
  /\ IdleBuild
  /\ IdleDeps
  /\ IdleInit
  /\ IdleFind

SpecCreate == InitCreate /\ [][NextCreate]_vars

(***************************************************************************)
(* Claims about the installer.                                             *)
(***************************************************************************)
FileOps == {"wrote", "skipped", "utils created", "utils merged", "utils skipped"}
WriteOps == {"wrote", "utils created", "utils merged"}
FailureOps == {"not found", "http error", "npm failed", "dependency failed"}

EventsAt(ops, requested) ==
  {k \in 1..Len(events) : events[k].op \in ops /\ events[k].name = requested}

Deps(n) == Range(registry[n].registryDependencies)

\* the names reachable from n over one or more registryDependencies edges
RECURSIVE Closure(_)
Closure(S) ==
  LET more == S \cup UNION {Deps(n) : n \in S}
  IN IF more = S THEN S ELSE Closure(more)
ReachableFrom(n) == Closure(Deps(n))

OnCycle(n) == n \in ReachableFrom(n)

Targets(n) ==
  {targetPath(config, options, registry[n], registry[n].files[k]) :
     k \in 1..Len(registry[n].files)}

\* the steps a run can take at most: two for each requested name and each
\* dependency edge (the call and its return), one more when the call is
\* short-circuited, four and one per file for each name of the registry, and
\* the start, the summary and the exit
RECURSIVE Sum(_, _)
Sum(f, S) ==
  IF S = {} THEN 0 ELSE LET x == CHOOSE y \in S : TRUE IN f[x] + Sum(f, S \ {x})

StepBound ==
  LET EdgesOf == [n \in Names |-> Len(registry[n].registryDependencies)]
      WorkOf == [n \in Names |-> 4 + Len(registry[n].files)]
  IN 3 * (Len(components) + Sum(EdgesOf, Names)) + Sum(WorkOf, Names) + 3

\* a step can be taken (the merge step is enabled where its guard holds)
CanStep == (AtFile /\ isUtilsFile(target)) \/ ENABLED NextButMerge

\* C1: every run, whatever the registry graph (self-dependency and cycles
\* included) and the requested names, comes to its exit step with no call of
\* installSingleComponent left open: until the exit a next step can always
\* be taken, and a run takes no more than StepBound steps.
C1_Terminates ==
  /\ pc \notin {"done", "rejected"} => CanStep
  /\ pc = "done" => stack = <<>>
  /\ steps <= StepBound

\* a run that installed both members of a dependency cycle has ended
C1_CycleRunEnded ==
  /\ pc = "done" /\ stack = <<>>
  /\ \E a \in installed, b \in installed :
       a # b /\ a \in Deps(b) /\ b \in Deps(a)
       /\ EventsAt({"succeeded"}, a) # {} /\ EventsAt({"succeeded"}, b) # {}

\* C2, state part: in one run no name is fetched twice and no file of an item
\* is processed twice; a run without failure has fetched every installed
\* name once and processed each of its files once.
C2_AtMostOnce ==
  /\ \A n \in Names :
       /\ Cardinality(EventsAt({"fetch"}, n)) <= 1
       /\ \A j \in EventsAt(FileOps, n), k \in EventsAt(FileOps, n) :
            events[j].path = events[k].path => j = k
  /\ (pc = "done" /\ fault = NoFault) =>
       \A n \in installed :
         /\ Cardinality(EventsAt({"fetch"}, n)) = 1
         /\ Cardinality(EventsAt({"succeeded"}, n)) = 1
         /\ {events[k].path : k \in EventsAt(FileOps, n)} = Targets(n)

\* C2, step part: a call for a name in the installed set returns true and
\* neither fetches nor touches a file.
C2_ShortCircuit ==
  (Running /\ Top.pc = "enter" /\ Top.name \in installed) =>
    /\ returned' = "true"
    /\ files' = files
    /\ installed' = installed
    /\ events' = Append(events, Event("already-installed", Top.name, <<>>))

\* C2: each name is fetched and its files processed at most once in a run,
\* and a call for an installed name is a no-op returning success.
C2_InstalledOnce == []C2_AtMostOnce /\ [][C2_ShortCircuit]_vars

\* both members of a cycle were installed and the second call for the first
\* was short-circuited
C2_CycleInstalledOnce ==
  /\ pc = "done" /\ fault = NoFault
  /\ \E a \in installed, b \in installed :
       /\ a # b /\ a \in Deps(b) /\ b \in Deps(a)
       /\ EventsAt({"already-installed"}, a) # {}
       /\ EventsAt(WriteOps, a) # {} /\ EventsAt(WriteOps, b) # {}

\* C3: when an item A is about to write one of its files, every file of each
\* of its registry dependencies B has been processed in this run and is on
\* disk.  (Stated for the pairs the data model allows: B is not A and does
\* not depend on A in turn.)
C3_DependenciesFirst ==
  AtFile =>
    \A b \in Deps(Top.name) :
      (b # Top.name /\ Top.name \notin ReachableFrom(b)) =>
        /\ {events[k].path : k \in EventsAt(FileOps, b)} = Targets(b)
        /\ \A p \in Targets(b) : existsSync(p)

\* C4: the second of two runs of the same command without overwrite leaves
\* every file as the first run left it, writes no file and merges nothing.
C4_SecondRunIdle ==
  (run = 2 /\ ~options.overwrite) =>
    /\ files = filesAtStart
    /\ \A k \in 1..Len(events) : events[k].op \notin WriteOps

\* C5, step part: without overwrite no step changes or removes a file that
\* is there and is not a utils file.
C5_ExistingKept ==
  ~options.overwrite =>
    \A p \in DOMAIN files :
      ~isUtilsFile(p) => (p \in DOMAIN files' /\ files'[p] = files[p])

\* C5, state part: a file found in place is counted as skipped, and the item
\* that skipped it ends successfully with that count.
C5_SkippedCounted ==
  /\ (~options.overwrite /\ Running /\ Top.pc = "files") =>
       Top.filesSkipped + Top.filesMerged + Top.filesWritten = Top.file - 1
  /\ \A k \in 1..Len(events) :
       events[k].op = "skipped" =>
         /\ events[k].path \in DOMAIN filesAtStart \/ run = 2
         /\ files[events[k].path] # <<>>
  /\ pc = "done" =>
       \A k \in 1..Len(events) :
         events[k].op = "skipped" =>
           \E j \in (k + 1)..Len(events) :
             /\ events[j].op = "succeeded" /\ events[j].name = events[k].name
             /\ events[j].path[3] >= 1

\* C5: without overwrite an existing non-utils target keeps its content, is
\* counted as skipped, and the item still succeeds.
C5_NoOverwriteKeeps == [][C5_ExistingKept]_vars /\ []C5_SkippedCounted

\* an item succeeded in a project where its target held the user's content,
\* which is still there
C5_UserFileSkipped ==
  \E k \in 1..Len(events) :
    /\ events[k].op = "succeeded" /\ events[k].path[3] >= 1
    /\ \E p \in Targets(events[k].name) :
         ~isUtilsFile(p) /\ p \in DOMAIN files /\ files[p] = <<Text("user")>>

LastEvent == events[Len(events)]

\* C6: with overwrite, when an item has just succeeded each of its targets,
\* utils file or not, holds the incoming content of its file, and every file
\* was reported as written: none merged, none skipped.
C6_OverwriteReplaces ==
  (options.overwrite /\ events # <<>> /\ LastEvent.op = "succeeded") =>
    LET item == registry[LastEvent.name]
    IN /\ \A k \in 1..Len(item.files) :
            LET p == targetPath(config, options, item, item.files[k])
            IN existsSync(p) /\ files[p] = item.files[k].content
       /\ LastEvent.path = <<Len(item.files), 0, 0>>
       /\ \A k \in EventsAt(FileOps, LastEvent.name) :
            events[k].op \in {"wrote", "utils created"}

\* a utils file that held the user's content was replaced by an install with
\* overwrite
C6_UtilsReplaced ==
  /\ options.overwrite /\ events # <<>> /\ LastEvent.op = "succeeded"
  /\ registry[LastEvent.name].type = "registry:lib"
  /\ \E p \in Targets(LastEvent.name) :
       /\ isUtilsFile(p) /\ p \in DOMAIN filesAtStart
       /\ filesAtStart[p] = UserContent(p) /\ files[p] # filesAtStart[p]

\* the outcomes of the calls addComponent made itself, in order
RECURSIVE TopLevelOutcomes(_)
TopLevelOutcomes(es) ==
  IF es = <<>> THEN <<>>
  ELSE (IF Head(es).depth = 1
           /\ Head(es).op \in FailureOps \cup {"succeeded", "already-installed"}
        THEN <<Head(es)>> ELSE <<>>)
       \o TopLevelOutcomes(Tail(es))

RECURSIVE FailedNames(_)
FailedNames(outcomes) ==
  IF outcomes = <<>> THEN <<>>
  ELSE (IF Head(outcomes).op \in FailureOps THEN <<Head(outcomes).name>> ELSE <<>>)
       \o FailedNames(Tail(outcomes))

\* C10: at the end of a run every requested name has been attempted, in
\* order, whatever became of the names before it; the names whose call
\* failed are exactly the recorded failures, and successes and failures add
\* up to the number of requested names.
C10_FailureIsolated ==
  pc \in {"summary", "done"} =>
    LET outcomes == TopLevelOutcomes(events)
    IN /\ [k \in 1..Len(outcomes) |-> outcomes[k].name] = components
       /\ results.notFound = FailedNames(outcomes)
       /\ results.failed = Len(results.notFound)
       /\ results.success + results.failed = Len(components)

\* the first requested name failed and the second was installed all the same
C10_SiblingInstalled ==
  /\ pc = "done" /\ Len(components) = 2
  /\ results.notFound = <<components[1]>>
  /\ EventsAt(WriteOps, components[2]) # {}
  /\ results.success = 1

\* C11: a run that went through its loop exits with 1 exactly when the
\* install of a requested name failed, at whatever depth of the run, and
\* with 0 otherwise; no exit status is set before the loop has attempted
\* every requested name.
C11_ExitStatus ==
  /\ pc \in {"start", "loop", "summary"} => exitCode = -1
  /\ pc = "done" =>
       /\ nextIndex = Len(components) + 1
       /\ Len(TopLevelOutcomes(events)) = Len(components)
       /\ exitCode \in {0, 1}
       /\ exitCode = 1 <=>
            \E k \in 1..Len(events) :
              events[k].op \in FailureOps /\ events[k].name \in Range(components)

\* the run exited with 1 after installing the name requested after the one
\* that failed
C11_ExitedAfterAll ==
  /\ pc = "done" /\ exitCode = 1 /\ Len(components) = 2
  /\ EventsAt(FailureOps, components[1]) # {}
  /\ EventsAt({"succeeded"}, components[2]) # {}

\* C12: a fetch that fails is reported as not found on a 404 and as another
\* error otherwise, and the availability of a name in the other frameworks
\* is probed only for a requested name whose own fetch was not found.
C12_ProbeOnlyNotFound ==
  /\ \A k \in 1..Len(events) :
       events[k].op \in {"not found", "http error"} =>
         events[k].op = (IF fault[2] = "404" THEN "not found" ELSE "http error")
  /\ \A k \in 1..Len(events) :
       events[k].op = "probe" =>
         \E j \in 1..(k - 1) :
           /\ events[j].op = "not found"
           /\ events[j].name = events[k].name /\ events[j].depth = 1

\* C13: every file of a lib item is processed at the utils alias of the
\* project joined with the last segment of its name, whatever --path is, and
\* by the utils merger; every file of another item is processed at --path,
\* or the components alias when no --path is given, joined with its name.
C13_TargetRouting ==
  \A k \in 1..Len(events) :
    events[k].op \in FileOps =>
      LET item == registry[events[k].name]
          base == IF options.path = NoPath THEN config.aliases.components ELSE options.path
      IN IF item.type = "registry:lib"
         THEN /\ \E i \in 1..Len(item.files) :
                   events[k].path = cwd \o config.aliases.utils
                                      \o <<item.files[i].name[Len(item.files[i].name)]>>
              /\ events[k].op \in {"utils created", "utils merged", "utils skipped"}
         ELSE \E i \in 1..Len(item.files) :
                events[k].path = cwd \o base \o item.files[i].name

\* C14: with a --framework that is one of the four frameworks every fetch
\* of the run, of a requested name or of a dependency, is made for that
\* framework; with any other --framework the run ends with exit status 1
\* and has fetched nothing, installed no package and touched no file.
C14_FrameworkOverride ==
  /\ (options.framework # NoFramework /\ validateFramework(options.framework)) =>
       \A k \in 1..Len(events) :
         events[k].op = "fetch" => events[k].path = <<options.framework>>
  /\ (options.framework # NoFramework /\ ~validateFramework(options.framework)) =>
       /\ pc \in {"start", "rejected"}
       /\ pc = "rejected" => exitCode = 1
       /\ events = <<>> /\ installed = {} /\ stack = <<>>
       /\ files = filesAtStart

\* a dependency was fetched for the framework of --framework, which is not
\* the framework of the configuration
C14_DependencyFetchedForOverride ==
  /\ options.framework # NoFramework /\ options.framework # config.framework
  /\ \E k \in 1..Len(events) :
       events[k].op = "fetch" /\ events[k].depth = 2
         /\ events[k].path = <<options.framework>>

(***************************************************************************)
(* Claims about the utils merger (specification SpecMerge).                *)
(***************************************************************************)
\* the content of the utils file after the i-th merge of the log
AfterMerge(i) == IF i = Len(mergeLog) THEN utilsFile ELSE mergeLog[i + 1].before

\* a merge in the proper sense: the target exists and overwrite is off
IsProperMerge(e) == e.before # Absent /\ ~e.overwrite

\* how many declarations of the binding n a content holds
RECURSIVE DeclCount(_, _)
DeclCount(content, n) ==
  IF content = <<>> THEN 0
  ELSE (IF Head(content) \in {<<"function", n>>, <<"const", n>>} THEN 1 ELSE 0)
       + DeclCount(Tail(content), n)

\* the lines of a content
RECURSIVE Lines(_)
Lines(content) ==
  LET nl == FirstOf(content, 1, {"\n"})
  IN IF nl = 0 THEN <<content>>
     ELSE <<SubSeq(content, 1, nl - 1)>> \o Lines(SubSeq(content, nl + 1, Len(content)))

\* the names a content declares, in the order of the text
RECURSIVE NamesInTextOrder(_)
NamesInTextOrder(content) ==
  IF content = <<>> THEN <<>>
  ELSE (IF Head(content)[1] \in {"function", "const"} THEN <<Head(content)[2]>> ELSE <<>>)
       \o NamesInTextOrder(Tail(content))

\* the declaration of n in a content whose declarations are one line each
DeclarationOf(content, n) ==
  LET ls == Lines(content)
      i == CHOOSE j \in 1..Len(ls) :
             ls[j] # <<>> /\ ls[j][1] \in {<<"function", n>>, <<"const", n>>}
  IN ls[i]

RECURSIVE DeclarationsOf(_, _)
DeclarationsOf(content, names) ==
  IF names = <<>> THEN <<>>
  ELSE <<DeclarationOf(content, Head(names))>> \o DeclarationsOf(content, Tail(names))

\* C7: in every merge without overwrite into an existing utils file, the text
\* that was there stays as it was and no binding name that was already
\* present gets another declaration, whatever the incoming content is.
C7_ExistingBindingsKept ==
  \A i \in 1..Len(mergeLog) :
    IsProperMerge(mergeLog[i]) =>
      /\ IsPrefix(trimEnd(mergeLog[i].before), AfterMerge(i))
      /\ \A n \in Range(extractFunctionNames(mergeLog[i].before)) :
           DeclCount(AfterMerge(i), n) = DeclCount(mergeLog[i].before, n)
      /\ mergeLog[i].result \in {"merged", "skipped"}

\* C8: a merge without overwrite into an existing file, when the incoming
\* content declares a name the file lacks, returns "merged" and leaves the
\* prior content followed by the declarations of exactly the missing names,
\* once each, in the order of the incoming text, blank lines between them.
C8_MissingBindingsAppended ==
  \A i \in 1..Len(mergeLog) :
    LET e == mergeLog[i]
        missing == SeqFilter(Dedup(NamesInTextOrder(e.newContent)),
                             Range(NamesInTextOrder(e.before)))
    IN (IsProperMerge(e) /\ missing # <<>>) =>
         /\ e.result = "merged"
         /\ AfterMerge(i) = trimEnd(e.before) \o <<NL, NL>>
                              \o join(DeclarationsOf(e.newContent, missing), <<NL, NL>>)
                              \o <<NL>>

\* C9: merging the incoming content of the merge before once more returns
\* "skipped" and leaves the file as it is; and whenever the file already has
\* every incoming binding name, the merge returns "skipped" and changes nothing.
C9_MergeIdempotent ==
  \A i \in 1..Len(mergeLog) :
    LET e == mergeLog[i]
    IN IsProperMerge(e) =>
         /\ (i > 1 /\ ~mergeLog[i - 1].overwrite /\ mergeLog[i - 1].newContent = e.newContent)
              => (e.result = "skipped" /\ AfterMerge(i) = e.before)
         /\ Range(NamesInTextOrder(e.newContent)) \subseteq Range(NamesInTextOrder(e.before))
              => (e.result = "skipped" /\ AfterMerge(i) = e.before)

(***************************************************************************)
(* Claims about the registry build.                                        *)
(***************************************************************************)
BuildEventsOf(ops) == {k \in 1..Len(buildLog) : buildLog[k].op \in ops}

EligibleEntries(folder) ==
  {k \in 1..Len(folder.entries) :
     folder.entries[k].kind = "file" /\ isValidComponentFile(folder.entries[k])}

Written(fw, role, entry) ==
  \E k \in BuildEventsOf({"write"}) :
    buildLog[k].path = outputPath(fw, entry) /\ buildLog[k].role = role

NoRegularFileFolder ==
  \A e \in 1..Len(tree.entries) : \A r \in RoleNames : tree.entries[e].roles[r].kind # "file"

\* the build has ended after one file operation of the kinds ops threw, in
\* a registry whose role folders are all directories
FileFailed(ops) ==
  /\ bpc = "done"
  /\ buildFault.op \in ops
  /\ NoRegularFileFolder
  /\ LET folder == RootEntry(tree.entries, buildFault.fw).roles[buildFault.role]
     IN  \E k \in EligibleEntries(folder) : fileName(folder.entries[k]) = buildFault.name

\* only the file whose operation threw is skipped, with a logged error;
\* every other eligible file of the framework is written, index.json is
\* written and its stats count the written artifacts
FileFailureIsolated(ops) ==
  FileFailed(ops) =>
    /\ buildExit = 0
    /\ index.written
    /\ BuildEventsOf({"error"}) # {}
    /\ \A r \in RoleNames :
         LET folder == RootEntry(tree.entries, buildFault.fw).roles[r]
         IN  \A k \in EligibleEntries(folder) :
               Written(buildFault.fw, r, folder.entries[k])
                 <=> ~(r = buildFault.role /\ fileName(folder.entries[k]) = buildFault.name)
    /\ index.body.stats.totalComponents + index.body.stats.totalUtilities
         = Cardinality(BuildEventsOf({"write"}))

\* C16: when statSync or readFileSync of one source file throws, only that
\* file is skipped and the error is logged, every other eligible file of
\* the framework is written, the build ends normally with index.json, and
\* the stats count exactly the written artifacts.
C16_FileFailureIsolated == FileFailureIsolated({"stat", "read"})

\* the part of C16 about readFileSync alone
ReadFailureIsolated == FileFailureIsolated({"read"})

\* src/cli/registry-schema.ts 11-32: what registryItemSchema.safeParse
\* accepts, on the fields an item can have here; the three dependency
\* lists have defaults and the fields of meta are optional
registryItemSchema(item) ==
  /\ {"name", "description", "type", "framework", "files", "meta"} \subseteq DOMAIN item
  /\ item.type \in {"registry:component", "registry:lib", "registry:hook"}
  /\ item.framework \in {"nextjs", "react", "vue", "angular"}
  /\ \A k \in 1..Len(item.files) : {"name", "content", "type"} \subseteq DOMAIN item.files[k]

\* C17: every item artifact under public/r passes registryItemSchema, and
\* a build in which an assembled item did not pass it has ended with a
\* non-zero exit code.
C17_SchemaGate ==
  /\ \A p \in DOMAIN artifacts : registryItemSchema(artifacts[p])
  /\ (bpc = "done" /\ \E k \in BuildEventsOf({"write"}) : ~registryItemSchema(buildLog[k].item))
       => buildExit = 1

WritesFrom(roles) == {k \in BuildEventsOf({"write"}) : buildLog[k].role \in roles}

StatsCountWrites ==
  /\ index.body.stats.totalComponents = Cardinality(WritesFrom({"ui"}))
  /\ index.body.stats.totalUtilities = Cardinality(WritesFrom({"lib", "hooks"}))

\* C18: once index.json is written, its totalComponents is the number of
\* artifacts written from ui folders and its totalUtilities the number
\* written from lib and hooks folders, over all frameworks.
C18_StatsCountWrites == index.written => StatsCountWrites

\* the same when no processFramework call threw
CountsWithoutFrameworkFailure == (index.written /\ stats.errors = 0) => StatsCountWrites

\* hooks were counted as utilities in a build in which nothing threw
HooksCounted ==
  /\ index.written
  /\ stats.errors = 0
  /\ WritesFrom({"hooks"}) # {}
  /\ WritesFrom({"lib"}) # {}

\* the entries of the registry root that are directories, are not in the
\* ignore list and have a directory named ui, lib or hooks
FrameworkDirectories ==
  {tree.entries[e].name : e \in
     {e \in 1..Len(tree.entries) :
        /\ tree.entries[e].kind = "dir"
        /\ tree.entries[e].name \notin IGNORED_DIRS
        /\ \E r \in RoleNames : tree.entries[e].roles[r].kind = "dir"}}

DiscoveryExact ==
  /\ bpc \in {"frameworks", "role", "files"} => Range(frameworks) = FrameworkDirectories
  /\ \A p \in DOMAIN artifacts : p[3] \in FrameworkDirectories
  /\ index.written =>
       /\ Range(index.body.frameworks) = FrameworkDirectories
       /\ Len(index.body.frameworks) = Cardinality(FrameworkDirectories)
       /\ index.body.stats.totalFrameworks = Cardinality(FrameworkDirectories)

\* C19: the frameworks of a build are exactly the directories of the
\* registry root that are not ignored and have a ui, lib or hooks
\* subfolder; artifacts are written for those only, index.json lists
\* exactly those and totalFrameworks is their number.
C19_DiscoveryExact == DiscoveryExact

\* the same for a registry whose ui, lib and hooks entries are directories
DiscoveryOfDirectories == NoRegularFileFolder => DiscoveryExact

\* a registry with a react subtree only: one framework, no vue artifact
ReactOnly ==
  /\ index.written
  /\ NoRegularFileFolder
  /\ index.body.frameworks = <<"react">>
  /\ index.body.stats.totalFrameworks = 1
  /\ artifacts # <<>>
  /\ \A p \in DOMAIN artifacts : p[3] = "react"

\* C20: the index.json written by the build has an animations array with
\* one entry per item artifact, whose id and name are the name of the
\* item, whose description is its description, whose libraries hold its
\* framework and whose sources hold its meta.source.
C20_AnimationsIndex ==
  index.written =>
    /\ "animations" \in DOMAIN index.body
    /\ Len(index.body.animations) = Cardinality(DOMAIN artifacts)
    /\ \A p \in DOMAIN artifacts :
         \E k \in 1..Len(index.body.animations) :
           LET entry == index.body.animations[k]
           IN  /\ entry.id = artifacts[p].name
               /\ entry.name = artifacts[p].name
               /\ entry.description = artifacts[p].description
               /\ p[3] \in Range(entry.libraries)
               /\ artifacts[p].meta.source \in Range(entry.sources)

\* the file name the item of a folder entry is to carry
ItemFileName(role, entry) ==
  IF getComponentType(role) = "registry:lib"
  THEN componentName(entry) \o "/index" \o extname(entry)
  ELSE fileName(entry)

FileNamedByType(role, item, entry) ==
  /\ item.type = getComponentType(role)
  /\ Len(item.files) = 1
  /\ item.files[1].name = ItemFileName(role, entry)

\* C21: every written item has the type of its role folder (ui ->
\* component, lib -> lib, hooks -> hook) and one file entry, named
\* <name>/index.<ext> for a lib item and as the source file otherwise.
C21_FileNamedByType ==
  \A k \in BuildEventsOf({"write"}) :
    LET folder == RootEntry(tree.entries, buildLog[k].path[3]).roles[buildLog[k].role]
    IN  \E e \in EligibleEntries(folder) :
          /\ componentName(folder.entries[e]) = buildLog[k].item.name
          /\ FileNamedByType(buildLog[k].role, buildLog[k].item, folder.entries[e])

\* the same for the items of ui and hooks folders, and the type of lib items
ComponentAndHookFilesNamed ==
  \A k \in BuildEventsOf({"write"}) :
    LET folder == RootEntry(tree.entries, buildLog[k].path[3]).roles[buildLog[k].role]
    IN  \E e \in EligibleEntries(folder) :
          /\ componentName(folder.entries[e]) = buildLog[k].item.name
          /\ buildLog[k].item.type = getComponentType(buildLog[k].role)
          /\ buildLog[k].role # "lib"
               => FileNamedByType(buildLog[k].role, buildLog[k].item, folder.entries[e])

OwnArtifacts ==
  /\ \A j, k \in BuildEventsOf({"write"}) : j # k => buildLog[j].path # buildLog[k].path
  /\ index.written =>
       Cardinality(DOMAIN artifacts)
         = index.body.stats.totalComponents + index.body.stats.totalUtilities

\* C30: no two source files of a build are written to the same artifact
\* path, and the number of artifact files is totalComponents +
\* totalUtilities of index.json.
C30_OwnArtifacts == OwnArtifacts

\* no two eligible files of one framework have the same name without
\* extension
DistinctNames ==
  \A e \in 1..Len(tree.entries) : \A r1, r2 \in RoleNames :
    \A k1 \in EligibleEntries(tree.entries[e].roles[r1]) :
      \A k2 \in EligibleEntries(tree.entries[e].roles[r2]) :
        componentName(tree.entries[e].roles[r1].entries[k1])
            = componentName(tree.entries[e].roles[r2].entries[k2])
          => (r1 = r2 /\ k1 = k2)

\* the same for registries with distinct names when no processFramework
\* call threw
OwnArtifactsOfDistinctNames == (DistinctNames /\ stats.errors = 0) => OwnArtifacts

\* two files named alpha of one framework were written and nothing threw
SameNameWritten ==
  /\ index.written
  /\ stats.errors = 0
  /\ buildFault = NoBuildFault
  /\ \E j, k \in BuildEventsOf({"write"}) : j # k /\ buildLog[j].path = buildLog[k].path

(***************************************************************************)
(* Claims about the order of the installer's steps.                        *)
(***************************************************************************)
Before(ops, requested, k) == {j \in EventsAt(ops, requested) : j < k}

DependenciesInstalledFirst ==
  \A k \in 1..Len(events) :
    events[k].op \in FileOps =>
      \A b \in Deps(events[k].name) :
        /\ Before({"fetch"}, b, k) # {}
        /\ Before({"succeeded"}, b, k) # {}

\* C26: a file of an item is processed only after each of its registry
\* dependencies has been fetched and has ended successfully in the same
\* run; an item whose dependency failed has none of its files written.
C26_DependenciesInstalledFirst == DependenciesInstalledFirst

\* the same in runs where nothing fails and the registry has no cycle
DependenciesFirstWithoutFault ==
  (fault = NoFault /\ \A n \in Names : ~OnCycle(n)) => DependenciesInstalledFirst

PackageOps == {"npm", "npm-dev"}

\* C27: when the call made for a registry dependency D of A ends in
\* failure, the call of A ends at once with 'dependency failed': nothing
\* is done at a deeper level on its behalf afterwards, no package and no
\* file event of A exists in the run, and the failure goes on to the
\* caller of A, up to the call made by addComponent, whose name is counted
\* as failed.
C27_DependencyFailureStops ==
  /\ \A k \in 1..Len(events) :
       (events[k].op \in FailureOps /\ events[k].depth > 1) =>
         IF k < Len(events)
         THEN /\ events[k + 1].op = "dependency failed"
              /\ events[k + 1].depth = events[k].depth - 1
              /\ events[k].name \in Deps(events[k + 1].name)
         ELSE /\ Running /\ returned = "false"
              /\ Top.pc = "awaitDep"
              /\ Len(stack) = events[k].depth - 1
              /\ component.registryDependencies[Top.dep] = events[k].name
  /\ \A k \in 1..Len(events) :
       events[k].op = "dependency failed" =>
         /\ k > 1
         /\ events[k - 1].op \in FailureOps
         /\ events[k - 1].depth = events[k].depth + 1
         /\ EventsAt(FileOps \cup PackageOps, events[k].name) = {}
         /\ k < Len(events) => events[k + 1].depth <= events[k].depth
         /\ (events[k].depth = 1 /\ pc \in {"summary", "done"}) =>
              /\ events[k].name \in Range(results.notFound)
              /\ results.failed >= 1
              /\ pc = "done" => exitCode = 1

\* an item with two dependencies whose first failed: the run has ended, the
\* second was never fetched and the item failed
C27_SecondDependencyNotFetched ==
  /\ pc = "done"
  /\ \E a \in Names :
       /\ Len(registry[a].registryDependencies) = 2
       /\ a \notin Deps(a)
       /\ fault = <<registry[a].registryDependencies[1], "404">>
       /\ EventsAt({"dependency failed"}, a) # {}
       /\ EventsAt({"fetch"}, registry[a].registryDependencies[2]) = {}

\* a failure two calls below the requested name reached the requested name
FailureReachedRequestedName ==
  /\ pc = "done"
  /\ \E k \in 1..Len(events) : events[k].op \in FailureOps /\ events[k].depth = 3
  /\ \E k \in 1..Len(events) : events[k].op = "dependency failed" /\ events[k].depth = 1

\* the package events of an item are before its first file event; an item
\* whose package installation failed has no file event, stays in the
\* installed set with the dependencies it installed, and no written file
\* is ever removed
PackagesBeforeFiles ==
  /\ \A k \in 1..Len(events) :
       events[k].op \in FileOps =>
         LET c == registry[events[k].name]
         IN  /\ c.dependencies # <<>> => Before({"npm"}, events[k].name, k) # {}
             /\ c.devDependencies # <<>> => Before({"npm-dev"}, events[k].name, k) # {}
             /\ EventsAt(PackageOps, events[k].name) = Before(PackageOps, events[k].name, k)
  /\ \A k \in 1..Len(events) :
       events[k].op = "npm failed" =>
         /\ EventsAt(FileOps, events[k].name) = {}
         /\ events[k].name \in installed
         /\ \A b \in Deps(events[k].name) : Before({"succeeded"}, b, k) # {} => b \in installed
         /\ (events[k].depth = 1 /\ pc \in {"summary", "done"}) =>
              events[k].name \in Range(results.notFound)
  /\ \A k \in 1..Len(events) : events[k].op \in WriteOps => events[k].path \in DOMAIN files

\* the step that reports the failure of the package manager ends the call
\* with false and changes neither a file nor the installed set
PackageFailureKeepsFiles ==
  (Len(events') = Len(events) + 1 /\ events'[Len(events')].op = "npm failed") =>
    /\ files' = files
    /\ installed' = installed
    /\ returned' = "false"
    /\ stack' = Callers

\* C28: the packages of an item are installed before any of its files is
\* processed; when the package installation fails no file of the item is
\* written and the item has failed, while the files written for its
\* registry dependencies stay as they are and the names stay in the
\* installed set.
C28_PackagesBeforeFiles == []PackagesBeforeFiles /\ [][PackageFailureKeepsFiles]_vars

\* the package installation of an item failed after a file of one of its
\* registry dependencies was written; the file is on disk at the end
C28_DependencyFilesKept ==
  /\ pc = "done"
  /\ \E k \in 1..Len(events) :
       /\ events[k].op = "npm failed"
       /\ \E b \in Deps(events[k].name) : \E j \in Before(WriteOps, b, k) :
            /\ b # events[k].name
            /\ events[j].path \in DOMAIN files
            /\ events[j].path \notin DOMAIN filesAtStart

OutcomeOps == FailureOps \cup {"succeeded"}

\* C29: one call of installSingleComponent runs at a time, each caller
\* waiting in its loop over the registry dependencies; when a fetch
\* starts, every fetch made before at the same or a deeper level belongs
\* to a call that has returned, so only the callers of the fetching call
\* are open.
C29_SequentialDepthFirst ==
  /\ \A d \in 1..(Len(stack) - 1) : stack[d].pc = "awaitDep"
  /\ Cardinality({d \in 1..Len(stack) : stack[d].pc = "fetch"}) <= 1
  /\ stack # <<>> => (pc = "loop" /\ nextIndex <= Len(components))
  /\ \A k \in 1..Len(events) : \A j \in 1..(k - 1) :
       (events[k].op = "fetch" /\ events[j].op = "fetch"
          /\ events[j].depth >= events[k].depth) =>
         \E m \in j..(k - 1) :
           /\ events[m].op \in OutcomeOps
           /\ events[m].name = events[j].name
           /\ events[m].depth = events[j].depth

\* an item with the dependencies B and C: C was fetched after B, with its
\* packages and files, had succeeded
C29_SecondAfterFirstReturned ==
  /\ pc = "done"
  /\ \E a \in Names :
       /\ Len(registry[a].registryDependencies) = 2
       /\ a \notin Deps(a)
       /\ LET b == registry[a].registryDependencies[1]
              c == registry[a].registryDependencies[2]
          IN  \E k \in EventsAt({"fetch"}, c) :
                /\ events[k].depth >= 2
                /\ Before({"succeeded"}, b, k) # {}
                /\ Before(WriteOps, b, k) # {}
                /\ Before({"fetch"}, a, k) # {}
                /\ Before(OutcomeOps, a, k) = {}

(***************************************************************************)
(* Claims about the dependency extraction.                                 *)
(***************************************************************************)
\* the order of two strings by the code units of their first difference
Precedes(a, b) ==
  \E i \in 1..Len(b) :
    /\ i <= Len(a) + 1
    /\ \A j \in 1..(i - 1) : a[j] = b[j]
    /\ i = Len(a) + 1 \/ CodeUnit(a[i]) < CodeUnit(b[i])

Slashes(s) == Cardinality({i \in 1..Len(s) : s[i] = "/"})

\* the package a specifier names: the text before the second slash of a
\* scoped specifier, before the first slash of any other
PackageOf(importPath) ==
  LET ends == {i \in 1..(Len(importPath) + 1) :
                 /\ i = Len(importPath) + 1 \/ importPath[i] = "/"
                 /\ Slashes(SubSeq(importPath, 1, i - 1))
                      = IF importPath[1] = "@" THEN 1 ELSE 0}
  IN  IF ends = {} THEN importPath
      ELSE SubSeq(importPath, 1, (CHOOSE i \in ends : \A j \in ends : i <= j) - 1)

External(importPath) ==
  /\ importPath[1] # "."
  /\ ~(Len(importPath) >= 2 /\ importPath[1] = "@" /\ importPath[2] = "/")

\* the specifiers the text imports with `from`, require() or import()
Imported(content) ==
  {content[k].importPath : k \in {k \in 1..Len(content) : content[k].form \in Range(importPatterns)}}

\* C22: the extracted list has no duplicate and is in lexicographic order,
\* holds the base package of the framework, holds no relative and no '@/'
\* specifier, holds a scoped package as its first two segments and any
\* other as its first segment; its entries besides the base package are
\* the packages of the external imports of the text, which for the imports
\* react, @scope/pkg/sub, ./local and @/internal-alias are react and
\* @scope/pkg.
C22_ExtractedDependencies ==
  extracted # NotExtracted =>
    LET base == FRAMEWORK_DEPENDENCIES(sourceFramework)
        bases == IF base = <<>> THEN {} ELSE {base}
    IN  /\ \A i, j \in 1..Len(extracted) : i < j => Precedes(extracted[i], extracted[j])
        /\ bases \subseteq Range(extracted)
        /\ \A i \in 1..Len(extracted) :
             /\ extracted[i] # <<>>
             /\ External(extracted[i])
             /\ Slashes(extracted[i]) <= (IF extracted[i][1] = "@" THEN 1 ELSE 0)
        /\ Range(extracted) \ bases
             = {PackageOf(s) : s \in {s \in Imported(source) : External(s) /\ PackageOf(s) # <<>>}}
                 \ bases
        /\ source = FourImports =>
             Range(extracted) = bases \cup {<<"r", "e", "a", "c", "t">>,
                                            <<"@", "s", "c", "o", "p", "e", "/", "p", "k", "g">>}

\* the list of the text with the four imports, for vue: the two packages
\* and the base package, sorted
C22_FourImportsExtracted ==
  /\ source = FourImports
  /\ sourceFramework = "vue"
  /\ extracted = << <<"@", "s", "c", "o", "p", "e", "/", "p", "k", "g">>,
                    <<"r", "e", "a", "c", "t">>,
                    <<"v", "u", "e">> >>

(***************************************************************************)
(* Claims about init.                                                      *)
(***************************************************************************)
\* C23: a non-interactive init in a directory that has a
\* clipmotion-components.json ends with the error 'Config file already
\* exists', and the configuration file and the directories are as they
\* were when it started.
C23_ExistingConfigKept ==
  (~initOptions.interactive /\ configAtStart.exists /\ ipc # "idle") =>
    /\ ipc \in {"start", "done"}
    /\ ipc = "done" => initOutcome = "Error: Config file already exists"
    /\ configFile = configAtStart
    /\ directories = directoriesAtStart

\* a second init, for vue, has failed on the configuration the first
\* init wrote for react
C23_SecondInitRejected ==
  /\ initRun = 2
  /\ ipc = "done"
  /\ ~initOptions.interactive
  /\ initOptions.framework = "vue"
  /\ initOutcome = "Error: Config file already exists"
  /\ configFile = buildConfig("react", NoPath)
  /\ <<"components", "utils">> \in directories

(***************************************************************************)
(* Claims about find.                                                      *)
(***************************************************************************)
\* C24: find calls the installer only for a matched animation, in a
\* project whose configuration names a framework that is in the libraries
\* of the animation, with --install as well as with the answer of the
\* prompt; with no configuration or another framework no call is made.
C24_InstallOnlyForSupportedFramework ==
  /\ Len(addCalls) <= 1
  /\ addCalls # <<>> =>
       /\ animation # NoAnimation
       /\ addCalls[1] = <<animation.id>>
       /\ findAction = "install"
       /\ findInput.config \notin {"no file", "not JSON", "no framework field"}
       /\ findInput.config \in animation.libraries
  /\ (fpc = "done" /\ findAction = "install"
      /\ (findInput.config \in {"no file", "not JSON", "no framework field"}
          \/ findInput.config \notin animation.libraries)) =>
       /\ addCalls = <<>>
       /\ findLog[Len(findLog)] \in {"Cannot install: Component not available",
                                     "Project not initialized"}

\* --install in a vue project for an animation of react only: refused
C24_MismatchRefused ==
  /\ fpc = "done"
  /\ findInput.install
  /\ findInput.config = "vue"
  /\ animation.libraries = {"react"}
  /\ findAction = "install"
  /\ addCalls = <<>>

\* the answer of the prompt started the install of a supported animation
InstallStartedFromPrompt ==
  /\ fpc = "done"
  /\ ~findInput.install
  /\ addCalls = <<<<"fade-in">>>>

(***************************************************************************)
(* Claims about create.                                                    *)
(***************************************************************************)
\* a file the checkout had when create started and that has another
\* content now (create removes no file)
ChangedFiles == createFilesAtStart \ createFiles

OverwriteConfirmed == asked /\ overwriteAnswer

\* C25: createComponent changes the files of a component that already
\* exists, in whatever framework and with whatever component extension,
\* only after the user confirmed the overwrite; after a declined overwrite
\* the command has exited with status 0 and the files are those it found;
\* an existing CONTRIBUTING.md keeps its content.
C25_OverwriteOnlyConfirmed ==
  /\ ChangedFiles # {} => OverwriteConfirmed
  /\ (asked /\ ~overwriteAnswer) =>
       /\ cpc = "exited"
       /\ createExit = 0
       /\ createFiles = createFilesAtStart
  /\ \A f \in createFilesAtStart : f.path.ext = "CONTRIBUTING.md" => f \in createFiles

\* the component files of the checkout are all .tsx files
OnlyTsxComponents ==
  \A f \in createFilesAtStart :
    f.path.folder \in {"ui", "examples"} => f.path.ext = ".tsx"

\* with .tsx components only, nothing is overwritten unconfirmed
OverwriteConfirmedForTsx == OnlyTsxComponents => C25_OverwriteOnlyConfirmed

\* a vue component was overwritten and the user was never asked
VueOverwrittenUnasked ==
  /\ cpc = "done"
  /\ ~asked
  /\ details = "vue"
  /\ File(componentPath("vue", kebabName), "old") \in ChangedFiles

\* the overwrite was declined and the command exited with 0
DeclinedExit ==
  /\ asked /\ ~overwriteAnswer
  /\ createExit = 0

\* an existing guide was kept while the files of the component were written
GuideKept ==
  /\ cpc = "done"
  /\ File(guidePath(details), "old") \in createFiles
  /\ File(componentPath(details, kebabName), "new") \in createFiles

====
